---- MODULE Spec2Model ----
(***************************************************************************)
(* Model of the WhatsApp web front-end server (src/unnamed/part_000):      *)
(* the session flags driven by the external client's lifecycle events and  *)
(* the history pager GET /api/chat-messages/:chatId.                       *)
(***************************************************************************)
EXTENDS Integers, Sequences, FiniteSets, TLC

VARIABLES
    clientState,       \* let clientState = "INITIALIZING"
    isAuthenticated,   \* let isAuthenticated = false
    isReady,           \* let isReady = false
    qrCodeData,        \* let qrCodeData = null  (<< >> is null, <<q>> a data URL)
    qrEncoding,        \* qr handlers suspended in `await qrcode.toDataURL(qr)`
    lastStatus,        \* payload of the most recent io.emit("status", ...)
    lastEvent,         \* the lifecycle event whose handler ran last
    initOutcome,       \* outcome of `await client.initialize()`
    history,           \* the chat's messages, oldest first (the external source)
    newestFirstSource, \* orientation in which chat.fetchMessages returns a batch
    arrivals,          \* number of messages that arrived since the start
    limitParam,        \* the limit query string handed to the page-size computation
    effectivePageSize, \* result of the page-size computation
    req,               \* the page request being handled (locals of the handler)
    resp,              \* the HTTP response of the page request
    prev,              \* the previous request, when it had the same cursor and limit
    loader,            \* the incremental loader (a client paging through the chat)
    observers,         \* the socket.io observers and what each has received
    inbound,           \* the "message" handler instances, in arrival order
    published,         \* the message and loading events published so far
    send,              \* the send request being handled (locals of the handler)
    sendResp,          \* the HTTP response of the send request
    transport,         \* the client.sendMessage calls made so far
    pinnedMessages,    \* the Map chat id -> array of pinned summaries (a reference)
    pinArrays,         \* the arrays the pin handlers have created, by reference
    pins,              \* the pin requests: their locals and their responses
    pinTrace,          \* the chat's pinned list seen when each request began and ended
    formatting,        \* the formattedMessages loop of a page request and its response
    arrived,           \* the lifecycle event the external client emitted last
    gallery            \* the media gallery request: its loop and its response

sessionVars == <<clientState, isAuthenticated, isReady, qrCodeData, qrEncoding,
                 lastStatus, lastEvent, initOutcome>>
sourceVars == <<history, newestFirstSource, arrivals>>
sizeVars == <<limitParam, effectivePageSize>>
pagerVars == <<req, resp, prev>>
fanoutVars == <<observers, inbound, published>>
sendVars == <<send, sendResp, transport>>
pinVars == <<pinnedMessages, pinArrays, pins, pinTrace>>
vars == <<clientState, isAuthenticated, isReady, qrCodeData, qrEncoding,
          lastStatus, lastEvent, initOutcome, history, newestFirstSource, arrivals,
          limitParam, effectivePageSize, req, resp, prev, loader,
          observers, inbound, published, send, sendResp, transport,
          pinnedMessages, pinArrays, pins, pinTrace, formatting, arrived, gallery>>

----
\* Bounds of the model.
MaxQrEncoding == 2
MaxSmallHist == 3
MaxTie == 2
MaxArrivals == 1
MaxLimitLen == 3
MaxEdge == 1
MaxInbound == 2
MaxLoading == 1
MaxPinRequests == 3
MaxSlice == 3
MaxGalleryFailures == 1

\* Program constants.
FetchSize == 500
MoreFetchSize == 1000
MaxPageSize == 100
MaxSizeBytes == 10485760
MinAudioLength == 100
MaxCleanLength == 52428800
OptimizeLength == 5242880

----
\* JavaScript numbers: an integer or NaN.
Num(x) == [nan |-> FALSE, v |-> x]
NaN == [nan |-> TRUE, v |-> 0]
JsAdd(a, b) == IF a.nan \/ b.nan THEN NaN ELSE Num(a.v + b.v)
JsSub(a, b) == IF a.nan \/ b.nan THEN NaN ELSE Num(a.v - b.v)
JsLess(a, b) == ~a.nan /\ ~b.nan /\ a.v < b.v
JsStrictEq(a, b) == ~a.nan /\ ~b.nan /\ a.v = b.v
MathMin(a, b) == IF a.nan \/ b.nan THEN NaN ELSE IF a.v < b.v THEN a ELSE b
MathMax(a, b) == IF a.nan \/ b.nan THEN NaN ELSE IF a.v > b.v THEN a ELSE b

Min(a, b) == IF a < b THEN a ELSE b
Reverse(s) == [i \in 1..Len(s) |-> s[Len(s) + 1 - i]]

----
\* Session: the lifecycle event handlers registered in initializeWhatsApp.

\* Values the external client passes to "change_state".
ChangeStates == {"READY", "CONFLICT", "UNLAUNCHED", "CONNECTED", "OPENING", "TIMEOUT"}
\* A "change_state" signal that carries no state: clientState becomes undefined.
Unset == "undefined"
QrPayloads == {"qrA", "qrB"}
NoEvent == [name |-> "none", arg |-> "none"]

Status(auth, ready, state) ==
    [isAuthenticated |-> auth, isReady |-> ready, clientState |-> state]

SessionInit ==
    /\ clientState = "INITIALIZING"
    /\ isAuthenticated = FALSE
    /\ isReady = FALSE
    /\ qrCodeData = << >>
    /\ qrEncoding = << >>
    /\ lastStatus = << >>
    /\ lastEvent = NoEvent
    /\ initOutcome = "pending"

\* client.on("qr") up to its await: the handler suspends in qrcode.toDataURL.
OnQr(qr) ==
    /\ Len(qrEncoding) < MaxQrEncoding
    /\ qrEncoding' = Append(qrEncoding, qr)
    /\ UNCHANGED <<clientState, isAuthenticated, isReady, qrCodeData,
                   lastStatus, lastEvent, initOutcome>>

\* client.on("qr") after the await: the data URL is stored and published.
OnQrEncoded ==
    /\ qrEncoding # << >>
    /\ qrCodeData' = <<Head(qrEncoding)>>
    /\ qrEncoding' = Tail(qrEncoding)
    /\ isAuthenticated' = FALSE
    /\ isReady' = FALSE
    /\ clientState' = "QR_RECEIVED"
    /\ lastStatus' = <<Status(FALSE, FALSE, "QR_RECEIVED")>>
    /\ lastEvent' = [name |-> "qr", arg |-> Head(qrEncoding)]
    /\ UNCHANGED initOutcome

OnAuthenticated ==
    /\ isAuthenticated' = TRUE
    /\ clientState' = "AUTHENTICATED"
    /\ qrCodeData' = << >>
    /\ lastStatus' = <<Status(TRUE, isReady, "AUTHENTICATED")>>
    /\ lastEvent' = [name |-> "authenticated", arg |-> "none"]
    /\ UNCHANGED <<isReady, qrEncoding, initOutcome>>

OnAuthFailure ==
    /\ isAuthenticated' = FALSE
    /\ isReady' = FALSE
    /\ clientState' = "AUTH_FAILURE"
    /\ lastStatus' = <<Status(FALSE, FALSE, "AUTH_FAILURE")>>
    /\ lastEvent' = [name |-> "auth_failure", arg |-> "none"]
    /\ UNCHANGED <<qrCodeData, qrEncoding, initOutcome>>

OnReady ==
    /\ isReady' = TRUE
    /\ clientState' = "READY"
    /\ qrCodeData' = << >>
    /\ lastStatus' = <<Status(isAuthenticated, TRUE, "READY")>>
    /\ lastEvent' = [name |-> "ready", arg |-> "none"]
    /\ UNCHANGED <<isAuthenticated, qrEncoding, initOutcome>>

OnDisconnected ==
    /\ isReady' = FALSE
    /\ isAuthenticated' = FALSE
    /\ clientState' = "DISCONNECTED"
    /\ qrCodeData' = << >>
    /\ lastStatus' = <<Status(FALSE, FALSE, "DISCONNECTED")>>
    /\ lastEvent' = [name |-> "disconnected", arg |-> "none"]
    /\ UNCHANGED <<qrEncoding, initOutcome>>

\* Fault: CONFLICT and UNLAUNCHED clear isReady only.
ChangeStateFlags_readyOnly(state, auth, ready) ==
    IF state = "READY" THEN <<auth, TRUE>>
    ELSE IF state = "CONFLICT" \/ state = "UNLAUNCHED" THEN <<auth, FALSE>>
    ELSE <<auth, ready>>

\* The flags after a "change_state" signal: <<isAuthenticated, isReady>>.
ChangeStateFlags(state, auth, ready) ==
    IF state = "READY" THEN <<auth, TRUE>>
    ELSE IF state = "CONFLICT" \/ state = "UNLAUNCHED" THEN <<FALSE, FALSE>>
    ELSE <<auth, ready>>

OnChangeState(state) ==
    LET flags == ChangeStateFlags(state, isAuthenticated, isReady) IN
    /\ clientState' = state
    /\ isAuthenticated' = flags[1]
    /\ isReady' = flags[2]
    /\ lastStatus' = <<Status(flags[1], flags[2], state)>>
    /\ lastEvent' = [name |-> "change_state", arg |-> state]
    /\ UNCHANGED <<qrCodeData, qrEncoding, initOutcome>>

\* `await client.initialize()` resolves.
InitializeCompletes ==
    /\ initOutcome = "pending"
    /\ initOutcome' = "completed"
    /\ UNCHANGED <<clientState, isAuthenticated, isReady, qrCodeData,
                   qrEncoding, lastStatus, lastEvent>>

\* `await client.initialize()` rejects: the catch block of initializeWhatsApp.
InitializeFails ==
    /\ initOutcome = "pending"
    /\ initOutcome' = "failed"
    /\ isReady' = FALSE
    /\ isAuthenticated' = FALSE
    /\ lastStatus' = <<Status(FALSE, FALSE, "undefined")>>
    /\ lastEvent' = [name |-> "init_failed", arg |-> "none"]
    /\ UNCHANGED <<clientState, qrCodeData, qrEncoding>>


----
\* Page size: Math.min(parseInt(limit || "50", 10), 100).
\* A query string is a sequence of one-character strings; << >> is an absent
\* (or empty) parameter.

Digits == {"0", "1", "2", "3", "4", "5", "6", "7", "8", "9"}
Whitespace == {" "}

DigitValue(c) ==
    CASE c = "0" -> 0 [] c = "1" -> 1 [] c = "2" -> 2 [] c = "3" -> 3
      [] c = "4" -> 4 [] c = "5" -> 5 [] c = "6" -> 6 [] c = "7" -> 7
      [] c = "8" -> 8 [] c = "9" -> 9

RECURSIVE SkipWhitespace(_)
SkipWhitespace(s) ==
    IF s # << >> /\ Head(s) \in Whitespace THEN SkipWhitespace(Tail(s)) ELSE s

\* The longest prefix of s made of digits.
RECURSIVE DigitPrefix(_)
DigitPrefix(s) ==
    IF s # << >> /\ Head(s) \in Digits
    THEN <<Head(s)>> \o DigitPrefix(Tail(s))
    ELSE << >>

RECURSIVE DecimalValue(_, _)
DecimalValue(s, acc) ==
    IF s = << >> THEN acc ELSE DecimalValue(Tail(s), 10 * acc + DigitValue(Head(s)))

\* parseInt(s, 10): leading whitespace, an optional sign, then the leading
\* digits; NaN when there is no digit.
ParseInt(s) ==
    LET t == SkipWhitespace(s)
        signed == t # << >> /\ Head(t) \in {"-", "+"}
        sign == IF t # << >> /\ Head(t) = "-" THEN -1 ELSE 1
        digits == DigitPrefix(IF signed THEN Tail(t) ELSE t)
    IN  IF digits = << >> THEN NaN ELSE Num(sign * DecimalValue(digits, 0))

DefaultLimit == <<"5", "0">>

PageSize(limit) ==
    MathMin(ParseInt(IF limit = << >> THEN DefaultLimit ELSE limit), Num(MaxPageSize))

LimitAlphabet == {"0", "1", "5", "9", "-", "a"}

RECURSIVE StringsUpTo(_)
StringsUpTo(n) ==
    IF n = 0 THEN {<< >>}
    ELSE LET shorter == StringsUpTo(n - 1)
         IN  shorter \cup {Append(s, c) : s \in shorter, c \in LimitAlphabet}

LimitInputs == StringsUpTo(MaxLimitLen)

\* effectivePageSize is << >> until the page size has been computed.
SizeInit ==
    /\ limitParam \in LimitInputs
    /\ effectivePageSize = << >>

ComputePageSize ==
    /\ effectivePageSize = << >>
    /\ effectivePageSize' = <<PageSize(limitParam)>>
    /\ UNCHANGED limitParam


----
\* The external source: chat.fetchMessages({limit}) returns the most recent
\* messages of the chat in the source's orientation.

\* Two consecutive messages may carry the same timestamp (seconds).
Message(i, tie) == [id |-> i, timestamp |-> (i + 1) \div tie]

HistLens == (0..MaxSmallHist) \cup {MaxPageSize, FetchSize + 1}

SourceInit ==
    /\ history \in {[i \in 1..n |-> Message(i, tie)] : n \in HistLens, tie \in 1..MaxTie}
    /\ newestFirstSource \in BOOLEAN
    /\ arrivals = 0

\* A message arrives in the chat (sent or received) and becomes its newest.
NewMessage ==
    /\ arrivals < MaxArrivals
    /\ arrivals' = arrivals + 1
    /\ \E dt \in {0, 1} :
          LET last == IF history = << >> THEN 1 ELSE history[Len(history)].timestamp
          IN  history' = Append(history, [id |-> Len(history) + 1, timestamp |-> last + dt])
    /\ UNCHANGED newestFirstSource

MostRecent(k) == SubSeq(history, Len(history) - k + 1, Len(history))

Batch(k) == IF newestFirstSource THEN Reverse(MostRecent(k)) ELSE MostRecent(k)

\* The batches fetchMessages({limit}) may return.  A limit that is not a
\* positive number is outside the source's contract: it may apply no limit
\* or return nothing.
FetchMessages(limit) ==
    IF ~limit.nan /\ limit.v > 0
    THEN {Batch(Min(limit.v, Len(history)))}
    ELSE {Batch(Len(history)), << >>}

----
\* History pager: GET /api/chat-messages/:chatId.

\* Array.prototype.findIndex on the message id (0-based, -1 when absent).
FindIndex(batch, beforeId) ==
    IF \E i \in 1..Len(batch) : <<batch[i].id>> = beforeId
    THEN (CHOOSE i \in 1..Len(batch) : <<batch[i].id>> = beforeId) - 1
    ELSE -1

\* Array.prototype.slice(start, end) for 0 <= start.
Slice(s, start, end) == SubSeq(s, start + 1, Min(end, Len(s)))

\* allMessages[0].timestamp > allMessages[length - 1].timestamp
IsNewestFirst(allMessages) ==
    /\ Len(allMessages) > 1
    /\ allMessages[1].timestamp > allMessages[Len(allMessages)].timestamp

\* Fault: a cursor that is not found falls back to the whole batch.
FirstPage_fallback(allMessages, beforeId, pageSize) ==
    LET beforeIndex == FindIndex(allMessages, beforeId)
        len == Len(allMessages)
        startIndex == IF IsNewestFirst(allMessages)
                      THEN Num(beforeIndex + 1)
                      ELSE MathMax(Num(0), JsSub(Num(beforeIndex), pageSize))
        endIndex == IF IsNewestFirst(allMessages)
                    THEN MathMin(JsAdd(Num(beforeIndex + 1), pageSize), Num(len))
                    ELSE Num(beforeIndex)
        messages == IF JsLess(startIndex, endIndex) /\ JsLess(startIndex, Num(len))
                    THEN Slice(allMessages, startIndex.v, endIndex.v)
                    ELSE << >>
    IN  IF beforeIndex >= 0
        THEN [beforeIndex |-> beforeIndex,
              messages |-> messages,
              retry |-> /\ JsLess(Num(Len(messages)), pageSize)
                        /\ JsStrictEq(endIndex, Num(len))]
        ELSE [beforeIndex |-> beforeIndex, messages |-> allMessages, retry |-> FALSE]

\* The cursor branch on the first batch: the page cut out of allMessages and
\* whether the second fetch is made.
FirstPage(allMessages, beforeId, pageSize) ==
    LET beforeIndex == FindIndex(allMessages, beforeId)
        len == Len(allMessages)
        startIndex == IF IsNewestFirst(allMessages)
                      THEN Num(beforeIndex + 1)
                      ELSE MathMax(Num(0), JsSub(Num(beforeIndex), pageSize))
        endIndex == IF IsNewestFirst(allMessages)
                    THEN MathMin(JsAdd(Num(beforeIndex + 1), pageSize), Num(len))
                    ELSE Num(beforeIndex)
        messages == IF JsLess(startIndex, endIndex) /\ JsLess(startIndex, Num(len))
                    THEN Slice(allMessages, startIndex.v, endIndex.v)
                    ELSE << >>
    IN  IF beforeIndex >= 0
        THEN [beforeIndex |-> beforeIndex,
              messages |-> messages,
              retry |-> /\ JsLess(Num(Len(messages)), pageSize)
                        /\ JsStrictEq(endIndex, Num(len))]
        ELSE [beforeIndex |-> beforeIndex, messages |-> << >>, retry |-> FALSE]

\* Fault: the slice of the second batch starts at the cursor itself.
SecondPage_inclusive(moreMessages, beforeId, pageSize, messages) ==
    LET newBeforeIndex == FindIndex(moreMessages, beforeId)
        newStartIndex == newBeforeIndex
        newEndIndex == MathMin(JsAdd(Num(newStartIndex), pageSize), Num(Len(moreMessages)))
    IN  IF newBeforeIndex >= 0 /\ newBeforeIndex < Len(moreMessages) - 1
        THEN Slice(moreMessages, newStartIndex, newEndIndex.v)
        ELSE messages

\* Fault: the retry cuts the entries in front of the cursor.
SecondPage_sliceBefore(moreMessages, beforeId, pageSize, messages) ==
    LET newBeforeIndex == FindIndex(moreMessages, beforeId)
        newEndIndex == newBeforeIndex
        newStartIndex == MathMax(Num(0), JsSub(Num(newEndIndex), pageSize))
    IN  IF newBeforeIndex >= 0 /\ newBeforeIndex < Len(moreMessages) - 1
        THEN Slice(moreMessages, newStartIndex.v, newEndIndex)
        ELSE messages

\* The second fetch: the page cut out of moreMessages, or the page of the
\* first batch when the cursor is absent or last in moreMessages.
SecondPage(moreMessages, beforeId, pageSize, messages) ==
    LET newBeforeIndex == FindIndex(moreMessages, beforeId)
        newStartIndex == newBeforeIndex + 1
        newEndIndex == MathMin(JsAdd(Num(newStartIndex), pageSize), Num(Len(moreMessages)))
    IN  IF newBeforeIndex >= 0 /\ newBeforeIndex < Len(moreMessages) - 1
        THEN Slice(moreMessages, newStartIndex, newEndIndex.v)
        ELSE messages

\* Fault: the page is reversed for the first of two equal requests only.
Page_cachedReverse(messages) ==
    [status |-> 200, messages |-> IF prev.valid THEN messages ELSE Reverse(messages)]

\* res.json({ messages: formattedMessages.reverse() })
Page(messages) == [status |-> 200, messages |-> Reverse(messages)]
ErrorResponse(code) == [status |-> code, messages |-> << >>]
NoResponse == [status |-> 0, messages |-> << >>]

ChatIds == {"chat", "unknown"}

IdleRequest ==
    [pc |-> "idle", chatId |-> "chat", beforeId |-> << >>, limit |-> << >>,
     pageSize |-> NaN, beforeIndex |-> -1, messages |-> << >>,
     fetches |-> << >>, n0 |-> 0]

NoPrev == [valid |-> FALSE, n0 |-> 0, resp |-> NoResponse]

PagerInit ==
    /\ req = IdleRequest
    /\ resp = NoResponse
    /\ prev = NoPrev

\* The handler up to `await client.getChatById(chatId)`.
GetChatMessages(chatId, beforeId, limit) ==
    /\ req.pc \in {"idle", "done"}
    /\ prev' = IF /\ req.pc = "done"
                  /\ req.chatId = chatId /\ req.beforeId = beforeId /\ req.limit = limit
               THEN [valid |-> TRUE, n0 |-> req.n0, resp |-> resp]
               ELSE NoPrev
    /\ IF ~isReady \/ ~isAuthenticated
       THEN /\ req' = [IdleRequest EXCEPT !.pc = "done", !.chatId = chatId,
                          !.beforeId = beforeId, !.limit = limit, !.n0 = Len(history)]
            /\ resp' = ErrorResponse(400)
       ELSE /\ req' = [IdleRequest EXCEPT !.pc = "getChat", !.chatId = chatId,
                          !.beforeId = beforeId, !.limit = limit, !.n0 = Len(history)]
            /\ resp' = NoResponse

\* getChatById settles: an unknown chat yields null (404) or a rejection
\* (500, the handler's catch); then the handler runs up to its fetch.
GetChatByIdReturns ==
    /\ req.pc = "getChat"
    /\ IF req.chatId # "chat"
       THEN /\ \E code \in {404, 500} : resp' = ErrorResponse(code)
            /\ req' = [req EXCEPT !.pc = "done"]
       ELSE /\ req' = [req EXCEPT !.pc = IF req.beforeId # << >> THEN "fetch1" ELSE "fetch",
                                  !.pageSize = PageSize(req.limit)]
            /\ UNCHANGED resp
    /\ UNCHANGED prev

\* No cursor: messages = await chat.fetchMessages({ limit: pageSize }).
FetchLatestReturns ==
    /\ req.pc = "fetch"
    /\ \E messages \in FetchMessages(req.pageSize) :
          /\ resp' = Page(messages)
          /\ req' = [req EXCEPT !.pc = "done", !.messages = messages,
                                !.fetches = Append(@, req.pageSize)]
    /\ UNCHANGED prev

\* Cursor: the batch of 500 arrives; the handler answers or fetches again.
FirstFetchReturns ==
    /\ req.pc = "fetch1"
    /\ \E allMessages \in FetchMessages(Num(FetchSize)) :
          LET first == FirstPage(allMessages, req.beforeId, req.pageSize) IN
          /\ req' = [req EXCEPT !.pc = IF first.retry THEN "fetch2" ELSE "done",
                                !.beforeIndex = first.beforeIndex,
                                !.messages = first.messages,
                                !.fetches = Append(@, Num(FetchSize))]
          /\ resp' = IF first.retry THEN NoResponse ELSE Page(first.messages)
    /\ UNCHANGED prev

\* Cursor: the batch of 1000 arrives and the handler answers.
SecondFetchReturns ==
    /\ req.pc = "fetch2"
    /\ \E moreMessages \in FetchMessages(Num(MoreFetchSize)) :
          LET messages == SecondPage(moreMessages, req.beforeId, req.pageSize,
                                     req.messages) IN
          /\ resp' = Page(messages)
          /\ req' = [req EXCEPT !.pc = "done", !.messages = messages,
                                !.fetches = Append(@, Num(MoreFetchSize))]
    /\ UNCHANGED prev

\* A pending fetchMessages rejects: the handler's catch answers 500.
FetchThrows ==
    /\ req.pc \in {"fetch", "fetch1", "fetch2"}
    /\ req' = [req EXCEPT !.pc = "done"]
    /\ resp' = ErrorResponse(500)
    /\ UNCHANGED prev


----
\* Incremental loading: a client that asks for the latest page and then keeps
\* asking for the page before the oldest message it has received.

\* The oldest message of a page (of two messages of the same second, the one
\* that is earlier in the chat).
Oldest(messages) ==
    CHOOSE i \in 1..Len(messages) :
        \A j \in 1..Len(messages) :
            \/ messages[i].timestamp < messages[j].timestamp
            \/ messages[i].timestamp = messages[j].timestamp /\ messages[i].id <= messages[j].id

PageIds(messages) == [i \in 1..Len(messages) |-> messages[i].id]

LoaderLimits == {<<"1">>, <<"2">>, <<"1", "0", "0">>}

LoaderStart(limit) ==
    /\ ~loader.active
    /\ loader' = [loader EXCEPT !.active = TRUE, !.limit = limit]
    /\ GetChatMessages("chat", << >>, limit)

LoaderNextPage ==
    /\ loader.active /\ ~loader.finished
    /\ req.pc = "done" /\ resp.status = 200 /\ resp.messages # << >>
    /\ loader' = [loader EXCEPT !.delivered = @ \o PageIds(resp.messages)]
    /\ GetChatMessages("chat", <<resp.messages[Oldest(resp.messages)].id>>, loader.limit)

\* An empty page ends the loading.
LoaderFinish ==
    /\ loader.active /\ ~loader.finished
    /\ req.pc = "done" /\ resp.status = 200 /\ resp.messages = << >>
    /\ loader' = [loader EXCEPT !.finished = TRUE]
    /\ UNCHANGED pagerVars

----
\* Fan-out: the socket.io observers and the events published to them.

Observers == {"o1"}
InboundKinds == {"chat", "ptt", "audio"}
DownloadOutcomes == {"media", "nodata", "throws"}

\* An observer: the last status and qr payloads it received (<< >> when it
\* received none), the number of events its connection handler sent it, and
\* the message and loading events it received, as positions in `published`.
NoObserver ==
    [connected |-> FALSE, joinedAt |-> 0, replayed |-> 0,
     status |-> << >>, qr |-> << >>, inbox |-> << >>]

FanoutInit ==
    /\ observers = [o \in Observers |-> NoObserver]
    /\ inbound = << >>
    /\ published = << >>

\* An observer receives one event.
Receive(ob, topic, payload) ==
    CASE topic = "status" -> [ob EXCEPT !.status = <<payload>>]
      [] topic = "qr" -> [ob EXCEPT !.qr = <<payload>>]
      [] OTHER -> [ob EXCEPT !.inbox = Append(@, payload)]

\* io.emit(topic, payload): every connected observer receives the event.
IoEmit(obs, topic, payload) ==
    [o \in Observers |->
        IF obs[o].connected THEN Receive(obs[o], topic, payload) ELSE obs[o]]

\* Fault: the pending QR payload is not replayed.
Replay_withoutQr(auth, ready, state, qr) ==
    [status |-> <<Status(auth, ready, state)>>, qr |-> << >>]

\* What the connection handler sends: the status, and the qr when one is set.
Replay(auth, ready, state, qr) ==
    [status |-> <<Status(auth, ready, state)>>,
     qr |-> IF qr # << >> THEN <<qr>> ELSE << >>]

\* io.on("connection").
ObserverConnects(o) ==
    LET r == Replay(isAuthenticated, isReady, clientState, qrCodeData) IN
    /\ ~observers[o].connected
    /\ observers' = [observers EXCEPT ![o] =
          [connected |-> TRUE, joinedAt |-> Len(published),
           replayed |-> Len(r.status) + Len(r.qr),
           status |-> r.status, qr |-> r.qr, inbox |-> << >>]]
    /\ UNCHANGED <<inbound, published>>

\* socket.on("disconnect").
ObserverDisconnects(o) ==
    /\ observers[o].connected
    /\ observers' = [observers EXCEPT ![o] = NoObserver]
    /\ UNCHANGED <<inbound, published>>

\* The io.emit calls of the lifecycle handlers.
PublishStatus == observers' = IoEmit(observers, "status", lastStatus'[1])
PublishQrAndStatus ==
    observers' = IoEmit(IoEmit(observers, "qr", qrCodeData'), "status", lastStatus'[1])

Publish(event) ==
    /\ published' = Append(published, event)
    /\ observers' = IoEmit(observers, event.topic, Len(published) + 1)

\* client.on("loading_screen").
OnLoadingScreen ==
    /\ Cardinality({i \in 1..Len(published) : published[i].topic = "loading"}) < MaxLoading
    /\ Publish([topic |-> "loading", id |-> 0, media |-> FALSE])
    /\ UNCHANGED inbound

\* client.on("message"): a voice or audio message suspends in downloadMedia,
\* any other message is published at once.
OnMessage(kind) ==
    /\ Len(inbound) < MaxInbound
    /\ IF kind \in {"ptt", "audio"}
       THEN /\ inbound' = Append(inbound,
                    [kind |-> kind, pc |-> "downloading", download |-> "none"])
            /\ UNCHANGED <<observers, published>>
       ELSE /\ inbound' = Append(inbound,
                    [kind |-> kind, pc |-> "published", download |-> "none"])
            /\ Publish([topic |-> "message", id |-> Len(inbound) + 1, media |-> FALSE])

\* Fault: a download that throws ends the handler before io.emit.
DownloadSettles_throwEscapes(i, outcome) ==
    /\ inbound[i].pc = "downloading"
    /\ inbound' = [inbound EXCEPT ![i].pc = "published", ![i].download = outcome]
    /\ IF outcome = "throws"
       THEN UNCHANGED <<observers, published>>
       ELSE Publish([topic |-> "message", id |-> i, media |-> (outcome = "media")])

\* downloadMedia settles: with media data, without, or by throwing; the catch
\* block logs, and the handler publishes the message.
DownloadSettles(i, outcome) ==
    /\ inbound[i].pc = "downloading"
    /\ inbound' = [inbound EXCEPT ![i].pc = "published", ![i].download = outcome]
    /\ Publish([topic |-> "message", id |-> i, media |-> (outcome = "media")])

----
\* Sending: POST /api/send-message.
\* A string of the request body is a sequence of runs [c, n]: n times the
\* token c.  "A" stands for a character of the base64 alphabet, "!" for a
\* character outside it other than "," and "="; "data:" is that five-character
\* prefix.  << >> is an absent (or empty) field.

Run(c, n) == [c |-> c, n |-> n]
TokenLength(c) == IF c = "data:" THEN 5 ELSE 1

\* String.prototype.length.
RECURSIVE StrLen(_)
StrLen(s) == IF s = << >> THEN 0 ELSE Head(s).n * TokenLength(Head(s).c) + StrLen(Tail(s))

StartsWithData(s) == s # << >> /\ s[1].c = "data:"

\* The runs of s before its first comma.
RECURSIVE UpToComma(_)
UpToComma(s) ==
    IF s = << >> \/ Head(s).c = "," THEN << >> ELSE <<Head(s)>> \o UpToComma(Tail(s))

\* s.split(",")[1]: the text between the first and the second comma; << >>
\* when s holds no comma (undefined) and when that text is empty.
SplitComma1(s) ==
    LET first == Len(UpToComma(s)) + 1 IN
    IF first > Len(s) \/ s[first].n > 1 THEN << >>
    ELSE UpToComma(SubSeq(s, first + 1, Len(s)))

\* Removal of a data URL prefix.
StripDataUrl(s) == IF StartsWithData(s) THEN SplitComma1(s) ELSE s

\* /^[A-Za-z0-9+/]*={0,2}$/.test(s)
IsBase64(s) ==
    \E k \in 0..Len(s) :
        /\ \A i \in 1..k : s[i].c = "A"
        /\ \A i \in (k + 1)..Len(s) : s[i].c = "="
        /\ StrLen(SubSeq(s, k + 1, Len(s))) <= 2

\* Buffer.from(s, "base64").length for a string that passed the test above.
RECURSIVE AlphabetCount(_)
AlphabetCount(s) ==
    IF s = << >> THEN 0
    ELSE (IF Head(s).c = "A" THEN Head(s).n ELSE 0) + AlphabetCount(Tail(s))
DecodedLength(s) == (AlphabetCount(s) * 6) \div 8

\* Fault: the minimum length of the audio data is not checked.
AudioDataError_noMinimum(clean) ==
    IF clean = << >> THEN "empty or null"
    ELSE IF ~IsBase64(clean) THEN "not valid base64"
    ELSE IF StrLen(clean) > MaxCleanLength THEN "too long"
    ELSE IF DecodedLength(clean) = 0 THEN "decoding failed"
    ELSE "none"

\* The validation of the cleaned audio data: the error thrown, or "none".
AudioDataError(clean) ==
    IF clean = << >> THEN "empty or null"
    ELSE IF ~IsBase64(clean) THEN "not valid base64"
    ELSE IF StrLen(clean) < MinAudioLength THEN "too short"
    ELSE IF StrLen(clean) > MaxCleanLength THEN "too long"
    ELSE IF DecodedLength(clean) = 0 THEN "decoding failed"
    ELSE "none"

\* Fault: the alphabet of the attachment data is not checked.
AttachmentDataError_noAlphabet(clean) ==
    IF clean = << >> THEN "empty or null" ELSE "none"

\* The validation of the cleaned attachment data.
AttachmentDataError(clean) ==
    IF clean = << >> THEN "empty or null"
    ELSE IF ~IsBase64(clean) THEN "not valid base64"
    ELSE "none"

\* A MIME type is a sequence of parts; includes() finds a whole part.
Includes(s, part) == \E i \in 1..Len(s) : s[i] = part

CleanMimeType(mimeType) ==
    LET m == IF mimeType = << >> THEN <<"audio/", "webm">> ELSE mimeType IN
    IF Includes(m, "webm") THEN "audio/webm"
    ELSE IF Includes(m, "mp4") \/ Includes(m, "m4a") THEN "audio/mp4"
    ELSE IF Includes(m, "wav") THEN "audio/wav"
    ELSE IF Includes(m, "ogg") THEN "audio/ogg"
    ELSE IF Includes(m, "mp3") THEN "audio/mpeg"
    ELSE "audio/webm"

FileExtension(clean) ==
    CASE clean = "audio/webm" -> "webm"
      [] clean = "audio/mp4" -> "m4a"
      [] clean = "audio/wav" -> "wav"
      [] clean = "audio/ogg" -> "ogg"
      [] clean = "audio/mpeg" -> "mp3"
      [] OTHER -> "mp3"

OptimizedMimeType(clean, data) ==
    IF StrLen(data) > OptimizeLength /\ clean = "audio/webm" THEN "audio/mp4" ELSE clean

\* Fault: the suffix is appended to every number.
FormattedNumber_always(number) == number \o <<"@c.us">>

\* number.includes("@c.us") ? number : `${number}@c.us`
FormattedNumber(number) ==
    IF Includes(number, "@c.us") THEN number ELSE number \o <<"@c.us">>

\* The errors a transport call of the voice chain ends with.
NoError == [tier |-> 0, kind |-> "none"]
TimeoutError == [tier |-> 0, kind |-> "timeout"]
Rejection(k) == [tier |-> k, kind |-> "rejected"]

\* Methods 1 to 6 of the voice fallback chain.
Tiers == <<"voice", "audio", "document", "audio/mpeg", "text/plain", "notice">>
LastTier == Len(Tiers)

\* Fault: Method 2 is left out of the chain.
NextTier_skipsAudio(k) == IF k = 1 THEN 3 ELSE k + 1

\* The method tried when method k has failed.
NextTier(k) == k + 1

RECURSIVE TiersAfter(_)
TiersAfter(k) ==
    IF k >= LastTier THEN << >> ELSE <<NextTier(k)>> \o TiersAfter(NextTier(k))

\* Fault: the error of the failure notice is not kept.
LastError_beforeNotice(k, error, previous) == IF k = LastTier THEN previous ELSE error

\* lastError after method k failed with an error.
LastError(k, error, previous) == error

NoBody ==
    [number |-> << >>, message |-> << >>, audioData |-> << >>, isVoiceMessage |-> FALSE,
     mimeType |-> << >>, attachmentData |-> << >>, attachmentType |-> << >>, caption |-> << >>]

IdleSend ==
    [pc |-> "idle", body |-> NoBody, entry |-> Status(FALSE, FALSE, "INITIALIZING"),
     to |-> << >>, cleanMimeType |-> "none", mimeType |-> "none", fileExtension |-> "none",
     sent |-> FALSE, lastError |-> NoError, attempts |-> << >>, timer |-> "unset"]

SendInit ==
    /\ send = IdleSend
    /\ sendResp = << >>
    /\ transport = << >>

SendResponse(status, success, method, warning, error, cause) ==
    [status |-> status, success |-> success, method |-> method,
     warning |-> warning, error |-> error, cause |-> cause]

SendError(status, error) == SendResponse(status, "absent", "absent", FALSE, error, NoError)
TextSuccess == SendResponse(200, "true", "absent", FALSE, "none", NoError)

\* Fault: a delivered failure notice is answered like a delivered voice message.
NoticeResponse_asSuccess(originalError) ==
    SendResponse(200, "true", "voice message", FALSE, "none", NoError)

\* Method 6 delivered: res.json of the fallback notification.
NoticeResponse(originalError) ==
    SendResponse(200, "true", "fallback notification", TRUE, "none", originalError)

\* if (sent): the response of Methods 1 to 5.
VoiceSuccess == SendResponse(200, "true", "voice message", FALSE, "none", NoError)

\* All methods failed.
AllFailedResponse(lastError) ==
    SendResponse(500, "false", "absent", FALSE, "Failed to send voice message", lastError)

\* client.sendMessage(to, content): the call as the transport sees it.
Call(tier, to, content, hasBody) ==
    [tier |-> tier, to |-> to, content |-> content, hasBody |-> hasBody,
     text |-> << >>, state |-> "pending", live |-> isReady /\ isAuthenticated]

TierCall(k) == Call(k, send.to, Tiers[k], TRUE)

\* if (!clientState && isReady && isAuthenticated) clientState = "READY": the
\* flags are true where the voice path reaches this line.
ClientStateFallback(state) == IF state = Unset THEN "READY" ELSE state

\* The handler from its entry to its first await or to its response.  The
\* client exists from process start, so the `!client` answers are not taken.
SendMessage(body) ==
    LET start == [IdleSend EXCEPT !.body = body,
                                  !.entry = Status(isAuthenticated, isReady, clientState)]
        to == FormattedNumber(body.number)
        cleanAudioData == StripDataUrl(body.audioData)
        cleanAttachmentData == StripDataUrl(body.attachmentData)
        cleanMimeType == CleanMimeType(body.mimeType)
        Answer(response) ==
            /\ send' = [start EXCEPT !.pc = "done"]
            /\ sendResp' = <<response>>
            /\ UNCHANGED <<transport, clientState>>
        Await(pc, call) ==
            /\ send' = [start EXCEPT !.pc = pc, !.to = to]
            /\ transport' = Append(transport, call)
            /\ UNCHANGED <<sendResp, clientState>>
    IN
    /\ send.pc = "idle"
    /\ IF ~isReady \/ ~isAuthenticated
       THEN Answer(SendError(400, "not ready"))
       ELSE IF body.number = << >> \/
               (body.message = << >> /\ body.audioData = << >> /\ body.attachmentData = << >>)
       THEN Answer(SendError(400, "content required"))
       ELSE IF body.isVoiceMessage /\ body.audioData # << >>
       THEN IF clientState # Unset /\ clientState # "READY"
            THEN Answer(SendError(400, "not in ready state"))
            ELSE IF StrLen(body.audioData) > MaxSizeBytes
            THEN /\ send' = [start EXCEPT !.pc = "done"]
                 /\ sendResp' = <<SendError(413, "too large")>>
                 /\ clientState' = ClientStateFallback(clientState)
                 /\ UNCHANGED transport
            ELSE IF AudioDataError(cleanAudioData) # "none"
            THEN /\ send' = [start EXCEPT !.pc = "done"]
                 /\ sendResp' = <<SendError(500, "Failed to send message")>>
                 /\ clientState' = ClientStateFallback(clientState)
                 /\ UNCHANGED transport
            ELSE /\ clientState' = ClientStateFallback(clientState)
                 /\ send' = [start EXCEPT
                               !.pc = "voice", !.to = to,
                               !.cleanMimeType = cleanMimeType,
                               !.mimeType = OptimizedMimeType(cleanMimeType, cleanAudioData),
                               !.fileExtension = FileExtension(cleanMimeType),
                               !.attempts = <<[tier |-> 1, outcome |-> "pending"]>>,
                               !.timer = "armed"]
                 /\ transport' = Append(transport, Call(1, to, Tiers[1], TRUE))
                 /\ UNCHANGED sendResp
       ELSE IF body.attachmentData # << >> /\ body.attachmentType # << >>
       THEN IF AttachmentDataError(cleanAttachmentData) # "none"
            THEN Answer(SendError(500, "Failed to send attachment"))
            ELSE Await("attachment", Call(0, to, "attachment", TRUE))
       ELSE Await("text", [Call(0, to, "text", body.message # << >>) EXCEPT !.text = body.message])

\* The awaited client.sendMessage resolves.
TransportAccepts ==
    LET n == Len(send.attempts) IN
    /\ send.pc \in {"voice", "attachment", "text"}
    /\ transport' = [transport EXCEPT ![Len(transport)].state = "accepted"]
    /\ IF send.pc = "voice"
       THEN /\ send' = [send EXCEPT !.pc = "done",
                                    !.sent = (send.attempts[n].tier < LastTier),
                                    !.attempts[n].outcome = "ok",
                                    !.timer = "cleared"]
            /\ sendResp' = Append(sendResp,
                  IF send.attempts[n].tier = LastTier
                  THEN NoticeResponse(send.lastError) ELSE VoiceSuccess)
       ELSE /\ send' = [send EXCEPT !.pc = "done"]
            /\ sendResp' = Append(sendResp, TextSuccess)

\* The awaited client.sendMessage rejects: the next method is tried, or the
\* handler answers.
TransportRejects ==
    LET n == Len(send.attempts)
        k == send.attempts[n].tier
        lastError == LastError(k, Rejection(k), send.lastError)
    IN
    /\ send.pc \in {"voice", "attachment", "text"}
    /\ IF send.pc = "voice" /\ k < LastTier
       THEN /\ send' = [send EXCEPT
                          !.attempts = Append([@ EXCEPT ![n].outcome = "rejected"],
                                              [tier |-> NextTier(k), outcome |-> "pending"]),
                          !.lastError = lastError]
            /\ transport' = Append([transport EXCEPT ![Len(transport)].state = "rejected"],
                                   TierCall(NextTier(k)))
            /\ UNCHANGED sendResp
       ELSE IF send.pc = "voice"
       THEN /\ send' = [send EXCEPT !.pc = "done", !.attempts[n].outcome = "rejected",
                                    !.lastError = lastError, !.timer = "cleared"]
            /\ transport' = [transport EXCEPT ![Len(transport)].state = "rejected"]
            /\ sendResp' = Append(sendResp, AllFailedResponse(lastError))
       ELSE /\ send' = [send EXCEPT !.pc = "done"]
            /\ transport' = [transport EXCEPT ![Len(transport)].state = "rejected"]
            /\ sendResp' = Append(sendResp,
                  SendError(500, IF send.pc = "attachment" THEN "Failed to send attachment"
                                 ELSE "Failed to send message"))

\* The 30 second timer fires while a method is awaited.  timeoutPromise is
\* shared by all methods: once rejected it wins every later Promise.race at
\* once, so each remaining method calls the transport and is abandoned before
\* any other event is handled, and the handler answers.
\* Fault: the timeout fails the awaited method only and is not armed again.
TimeoutFires_currentOnly ==
    LET n == Len(send.attempts)
        k == send.attempts[n].tier
        lastError == LastError(k, TimeoutError, send.lastError)
    IN
    /\ send.pc = "voice"
    /\ send.timer = "armed"
    /\ IF k < LastTier
       THEN /\ send' = [send EXCEPT
                          !.attempts = Append([@ EXCEPT ![n].outcome = "timeout"],
                                              [tier |-> NextTier(k), outcome |-> "pending"]),
                          !.lastError = lastError,
                          !.timer = "fired"]
            /\ transport' = Append(transport, TierCall(NextTier(k)))
            /\ UNCHANGED sendResp
       ELSE /\ send' = [send EXCEPT !.pc = "done", !.attempts[n].outcome = "timeout",
                                    !.lastError = lastError, !.timer = "fired"]
            /\ sendResp' = Append(sendResp, AllFailedResponse(lastError))
            /\ UNCHANGED transport

TimeoutFires ==
    LET n == Len(send.attempts)
        k == send.attempts[n].tier
        rest == TiersAfter(k)
    IN
    /\ send.pc = "voice"
    /\ send.timer = "armed"
    /\ send' = [send EXCEPT
                  !.pc = "done",
                  !.attempts = [@ EXCEPT ![n].outcome = "timeout"] \o
                               [i \in 1..Len(rest) |-> [tier |-> rest[i], outcome |-> "timeout"]],
                  !.lastError = LastError(LastTier, TimeoutError, send.lastError),
                  !.timer = "fired"]
    /\ transport' = transport \o [i \in 1..Len(rest) |-> TierCall(rest[i])]
    /\ sendResp' = Append(sendResp, AllFailedResponse(LastError(LastTier, TimeoutError, send.lastError)))

\* A call whose attempt was abandoned on timeout is accepted by the transport.
AbandonedCallAccepted(i) ==
    /\ send.pc = "done"
    /\ transport[i].state = "pending"
    /\ transport' = [transport EXCEPT ![i].state = "accepted"]
    /\ UNCHANGED <<send, sendResp>>

----
\* Pinned messages: POST /api/pin-message and GET /api/pinned-messages.

PinFetchLimit == 100

PinChats == {"chat"}
PinMessageIds == {1, 2}

\* The request bodies: a pin or an unpin of a message, or a body whose
\* action is empty.
PinBodies ==
    [chatId : PinChats, messageId : PinMessageIds, action : {"pin", "unpin"}]
        \cup {[chatId |-> "chat", messageId |-> 1, action |-> ""]}

NoPin ==
    [pc |-> "idle", chatId |-> "", messageId |-> 0, action |-> "",
     chatPinnedMessages |-> 0, status |-> 0, pinnedMessages |-> << >>]

PinInit ==
    /\ pinnedMessages = [c \in PinChats |-> 0]
    /\ pinArrays = << >>
    /\ pins = [r \in 1..MaxPinRequests |-> NoPin]
    /\ pinTrace = << >>

\* The summary stored for a pinned message.
PinnedMessage(message) == [id |-> message.id, timestamp |-> message.timestamp]

\* pinnedMessages.get(chatId) || [] under a map and its arrays.
PinnedOf(map, arrays, chatId) == IF map[chatId] = 0 THEN << >> ELSE arrays[map[chatId]]

\* GET /api/pinned-messages/:chatId
GetPinnedMessages(chatId) == PinnedOf(pinnedMessages, pinArrays, chatId)

\* chatPinnedMessages.find((msg) => msg.id === messageId)
IsPinned(array, messageId) == \E i \in 1..Len(array) : array[i].id = messageId

\* chatPinnedMessages.filter((msg) => msg.id !== messageId)
Unpinned_keepsAll(array, messageId) == array

Unpinned(array, messageId) == SelectSeq(array, LAMBDA msg : msg.id # messageId)

Begin(r, chatId) ==
    [request |-> r, event |-> "begin", pinnedMessages |-> GetPinnedMessages(chatId)]
End(r, list) == [request |-> r, event |-> "end", pinnedMessages |-> list]

\* The handler up to its first await, or to its response.
PinMessage(r, body) ==
    /\ pins[r].pc = "idle"
    /\ r > 1 => pins[r - 1].pc # "idle"
    /\ LET chatId == body.chatId
           begun == [NoPin EXCEPT !.chatId = chatId, !.messageId = body.messageId,
                                  !.action = body.action]
       IN  IF ~isReady \/ ~isAuthenticated \/ body.action = ""
           THEN /\ pins' = [pins EXCEPT ![r] = [begun EXCEPT !.pc = "done", !.status = 400]]
                /\ pinTrace' = pinTrace \o <<Begin(r, chatId), End(r, GetPinnedMessages(chatId))>>
                /\ UNCHANGED <<pinnedMessages, pinArrays>>
           ELSE LET has == pinnedMessages[chatId] # 0
                    arrays1 == IF has THEN pinArrays ELSE Append(pinArrays, << >>)
                    map1 == IF has THEN pinnedMessages
                            ELSE [pinnedMessages EXCEPT ![chatId] = Len(arrays1)]
                    chatPinnedMessages == map1[chatId]
                IN  IF body.action = "pin"
                    THEN IF ~IsPinned(arrays1[chatPinnedMessages], body.messageId)
                         THEN /\ pins' = [pins EXCEPT ![r] =
                                    [begun EXCEPT !.pc = "getChatById",
                                                  !.chatPinnedMessages = chatPinnedMessages]]
                              /\ pinnedMessages' = map1
                              /\ pinArrays' = arrays1
                              /\ pinTrace' = Append(pinTrace, Begin(r, chatId))
                         ELSE /\ pins' = [pins EXCEPT ![r] =
                                    [begun EXCEPT !.pc = "done", !.status = 200,
                                                  !.chatPinnedMessages = chatPinnedMessages,
                                                  !.pinnedMessages = PinnedOf(map1, arrays1, chatId)]]
                              /\ pinnedMessages' = map1
                              /\ pinArrays' = arrays1
                              /\ pinTrace' = pinTrace \o
                                    <<Begin(r, chatId), End(r, PinnedOf(map1, arrays1, chatId))>>
                    ELSE LET updatedPinnedMessages ==
                                 Unpinned(arrays1[chatPinnedMessages], body.messageId)
                             arrays2 == Append(arrays1, updatedPinnedMessages)
                         IN  /\ pins' = [pins EXCEPT ![r] =
                                    [begun EXCEPT !.pc = "done", !.status = 200,
                                                  !.chatPinnedMessages = chatPinnedMessages,
                                                  !.pinnedMessages = updatedPinnedMessages]]
                             /\ pinnedMessages' = [map1 EXCEPT ![chatId] = Len(arrays2)]
                             /\ pinArrays' = arrays2
                             /\ pinTrace' = pinTrace \o
                                    <<Begin(r, chatId), End(r, updatedPinnedMessages)>>

\* await client.getChatById(chatId) resolves.
PinGetChatByIdReturns(r) ==
    /\ pins[r].pc = "getChatById"
    /\ pins' = [pins EXCEPT ![r].pc = "fetchMessages"]
    /\ UNCHANGED <<pinnedMessages, pinArrays, pinTrace>>

\* messages.find((msg) => msg.id._serialized === messageId)
FindMessage(messages, messageId) ==
    {messages[i] : i \in {j \in 1..Len(messages) : messages[j].id = messageId}}

\* await chat.fetchMessages({ limit: 100 }) resolves: the rest of the handler.
PinFetchReturns(r) ==
    /\ pins[r].pc = "fetchMessages"
    /\ \E messages \in FetchMessages(Num(PinFetchLimit)) :
          LET chatId == pins[r].chatId
              ref == pins[r].chatPinnedMessages
              found == FindMessage(messages, pins[r].messageId)
              arrays1 == IF found = {} THEN pinArrays
                         ELSE [pinArrays EXCEPT ![ref] =
                                   Append(@, PinnedMessage(CHOOSE m \in found : TRUE))]
              map1 == IF found = {} THEN pinnedMessages
                      ELSE [pinnedMessages EXCEPT ![chatId] = ref]
          IN  /\ pinArrays' = arrays1
              /\ pinnedMessages' = map1
              /\ pins' = [pins EXCEPT ![r].pc = "done", ![r].status = 200,
                                      ![r].pinnedMessages = PinnedOf(map1, arrays1, chatId)]
              /\ pinTrace' = Append(pinTrace, End(r, PinnedOf(map1, arrays1, chatId)))

\* getChatById or fetchMessages rejects: the catch block answers 500.
PinThrows(r) ==
    /\ pins[r].pc \in {"getChatById", "fetchMessages"}
    /\ pins' = [pins EXCEPT ![r].pc = "done", ![r].status = 500]
    /\ pinTrace' = Append(pinTrace, End(r, GetPinnedMessages(pins[r].chatId)))
    /\ UNCHANGED <<pinnedMessages, pinArrays>>

----
\* The formattedMessages loop of GET /api/chat-messages/:chatId.

\* What the loop reads of a message: hasMedia and type.
MessageShapes ==
    {[hasMedia |-> FALSE, type |-> "chat"], [hasMedia |-> TRUE, type |-> "image"],
     [hasMedia |-> TRUE, type |-> "ptt"]}

\* The selected slices: consecutive messages, newest first or oldest first.
Slices ==
    UNION {{[k \in 1..n |-> [id |-> IF newestFirst THEN n + 1 - k ELSE k,
                             hasMedia |-> shape[k].hasMedia, type |-> shape[k].type]] :
               shape \in [1..n -> MessageShapes], newestFirst \in BOOLEAN} : n \in 0..MaxSlice}

IdleFormat ==
    [pc |-> "idle", messages |-> << >>, next |-> 1, formattedMessages |-> << >>,
     downloads |-> << >>, status |-> 0, response |-> << >>]

FormatInit == formatting = IdleFormat

\* The entry pushed without media.
Base(msg) == [id |-> msg.id, hasMedia |-> msg.hasMedia, mediaUrl |-> FALSE]

\* The loop from message `next` on, up to the next await msg.downloadMedia()
\* or, past the last message, to the response.
RECURSIVE FormatFrom(_)
FormatFrom(f) ==
    IF f.next > Len(f.messages)
    THEN [f EXCEPT !.pc = "done", !.status = 200,
                   !.response = Reverse(f.formattedMessages)]
    ELSE LET msg == f.messages[f.next] IN
         IF msg.hasMedia /\ msg.type = "image"
         THEN [f EXCEPT !.pc = "downloadMedia"]
         ELSE FormatFrom([f EXCEPT !.formattedMessages = Append(@, Base(msg)),
                                   !.downloads = Append(@, "none"),
                                   !.next = @ + 1])

\* The loop starts on the selected slice.
FormatMessages(messages) ==
    /\ formatting.pc = "idle"
    /\ formatting' = FormatFrom([IdleFormat EXCEPT !.messages = messages])

\* Fault: a download that throws fails the request.
FormatDownloadSettles_throwFails(outcome) ==
    /\ formatting.pc = "downloadMedia"
    /\ LET msg == formatting.messages[formatting.next]
           entry == IF outcome = "media" THEN [Base(msg) EXCEPT !.mediaUrl = TRUE]
                    ELSE Base(msg)
       IN  formatting' =
              IF outcome = "throws"
              THEN [formatting EXCEPT !.pc = "done", !.status = 500,
                                      !.downloads = Append(@, outcome)]
              ELSE FormatFrom([formatting EXCEPT !.formattedMessages = Append(@, entry),
                                                 !.downloads = Append(@, outcome),
                                                 !.next = @ + 1])

\* msg.downloadMedia() settles: with data and mimetype the entry carries the
\* media, otherwise (also when it throws) the base entry is pushed.
FormatDownloadSettles(outcome) ==
    /\ formatting.pc = "downloadMedia"
    /\ LET msg == formatting.messages[formatting.next]
           entry == IF outcome = "media" THEN [Base(msg) EXCEPT !.mediaUrl = TRUE]
                    ELSE Base(msg)
       IN  formatting' =
              FormatFrom([formatting EXCEPT !.formattedMessages = Append(@, entry),
                                            !.downloads = Append(@, outcome),
                                            !.next = @ + 1])

----
\* Media gallery: GET /api/chat-media/:chatId.

GalleryFetchLimit == 50
GalleryLimit == 24

\* What the handler reads of a message: hasMedia and type.
GalleryShapes ==
    {[hasMedia |-> TRUE, type |-> "image"], [hasMedia |-> TRUE, type |-> "video"],
     [hasMedia |-> TRUE, type |-> "document"], [hasMedia |-> FALSE, type |-> "chat"]}

\* The batches chat.fetchMessages({ limit: 50 }) returns: a run of messages of
\* one shape followed by a run of another.
GalleryRunLens == {0, 1, GalleryLimit, GalleryLimit + 1}
GalleryBatches ==
    {[k \in 1..(ab[1] + ab[2]) |->
         [id |-> k, hasMedia |-> (IF k <= ab[1] THEN s1 ELSE s2).hasMedia,
          type |-> (IF k <= ab[1] THEN s1 ELSE s2).type]] :
        ab \in {p \in GalleryRunLens \X GalleryRunLens : p[1] + p[2] <= GalleryFetchLimit},
        s1 \in GalleryShapes, s2 \in GalleryShapes}

IdleGallery ==
    [pc |-> "idle", mediaMessages |-> << >>, next |-> 1, mediaGallery |-> << >>,
     failures |-> 0, status |-> 0, response |-> << >>]

GalleryInit == gallery = IdleGallery

\* messages.filter(hasMedia and image, video or document)
MediaMessages(messages) ==
    SelectSeq(messages,
              LAMBDA msg : msg.hasMedia /\ msg.type \in {"image", "video", "document"})

GalleryBase(msg) == [id |-> msg.id, type |-> msg.type, mediaUrl |-> FALSE]

GalleryAnswer(g) ==
    [g EXCEPT !.pc = "done", !.status = 200, !.response = g.mediaGallery]

\* A push: of an entry with media, followed by continue, or of the base
\* entry, followed by the length test and break.
GalleryPush(g, entry, withMedia) ==
    LET pushed == [g EXCEPT !.mediaGallery = Append(@, entry), !.next = @ + 1]
    IN  [stop |-> ~withMedia /\ Len(pushed.mediaGallery) >= GalleryLimit, g |-> pushed]

\* The loop from message `next` on, up to the next await msg.downloadMedia()
\* or to the response.
RECURSIVE GalleryFrom(_)
GalleryFrom(g) ==
    IF g.next > Len(g.mediaMessages)
    THEN GalleryAnswer(g)
    ELSE LET msg == g.mediaMessages[g.next] IN
         IF msg.type = "image"
         THEN [g EXCEPT !.pc = "downloadMedia"]
         ELSE LET p == GalleryPush(g, GalleryBase(msg), FALSE)
              IN  IF p.stop THEN GalleryAnswer(p.g) ELSE GalleryFrom(p.g)

\* The handler up to await client.getChatById.
GetChatMedia ==
    /\ gallery.pc = "idle"
    /\ gallery' = IF ~isReady \/ ~isAuthenticated
                  THEN [IdleGallery EXCEPT !.pc = "done", !.status = 400]
                  ELSE [IdleGallery EXCEPT !.pc = "getChatById"]

\* getChatById resolves with a chat or with none.
GalleryChatReturns(found) ==
    /\ gallery.pc = "getChatById"
    /\ gallery' = IF found THEN [gallery EXCEPT !.pc = "fetchMessages"]
                  ELSE [gallery EXCEPT !.pc = "done", !.status = 404]

\* fetchMessages resolves: the filter and the loop up to its first download.
GalleryFetchReturns(messages) ==
    /\ gallery.pc = "fetchMessages"
    /\ gallery' = GalleryFrom([gallery EXCEPT !.mediaMessages = MediaMessages(messages)])

\* msg.downloadMedia() of an image settles.
GalleryDownloadSettles(outcome) ==
    /\ gallery.pc = "downloadMedia"
    /\ outcome # "media" => gallery.failures < MaxGalleryFailures
    /\ LET msg == gallery.mediaMessages[gallery.next]
           g == [gallery EXCEPT !.pc = "loop",
                                !.failures = IF outcome = "media" THEN @ ELSE @ + 1]
           p == IF outcome = "media"
                THEN GalleryPush(g, [GalleryBase(msg) EXCEPT !.mediaUrl = TRUE], TRUE)
                ELSE GalleryPush(g, GalleryBase(msg), FALSE)
       IN  gallery' = IF p.stop THEN GalleryAnswer(p.g) ELSE GalleryFrom(p.g)

\* getChatById or fetchMessages rejects: the catch block answers 500.
GalleryThrows ==
    /\ gallery.pc \in {"getChatById", "fetchMessages"}
    /\ gallery' = [gallery EXCEPT !.pc = "done", !.status = 500]

----
\* Specifications.

\* Cursors of the requests: no cursor, an id no message carries, and the ids
\* near the ends of the history and of the two fetch windows.
NearEdge(i, edge) == i - edge \in (1 - MaxEdge)..MaxEdge
CursorInputs ==
    {<< >>, <<0>>} \cup
    {<<i>> : i \in {j \in 1..Len(history) :
                      \/ j <= MaxEdge
                      \/ j > Len(history) - MaxEdge
                      \/ NearEdge(j, Len(history) - FetchSize)
                      \/ NearEdge(j, Len(history) - MoreFetchSize)}}

PagerLimits == {<< >>, <<"1">>, <<"2">>, <<"1", "0", "0">>, <<"0">>, <<"a">>}

\* The requests a client issues: any request on an idle connection, and one
\* repetition of the request just answered.  A request for a chat the source
\* does not know carries no cursor.
ClientRequests ==
    {r \in [chatId : ChatIds, beforeId : CursorInputs, limit : PagerLimits] :
        /\ r.chatId # "chat" => r.beforeId = << >> /\ r.limit = << >>
        /\ req.pc = "done" =>
              ~prev.valid /\ r.chatId = req.chatId /\ r.beforeId = req.beforeId /\ r.limit = req.limit}

ReadySession ==
    /\ clientState = "READY"
    /\ isAuthenticated = TRUE
    /\ isReady = TRUE
    /\ qrCodeData = << >>
    /\ qrEncoding = << >>
    /\ lastStatus = <<Status(TRUE, TRUE, "READY")>>
    /\ lastEvent = [name |-> "ready", arg |-> "none"]
    /\ initOutcome = "completed"

EmptySource ==
    /\ history = << >>
    /\ newestFirstSource = FALSE
    /\ arrivals = 0

NoSize ==
    /\ limitParam = << >>
    /\ effectivePageSize = << >>

IdleLoader == [active |-> FALSE, finished |-> FALSE, limit |-> << >>, delivered |-> << >>]

\* The session alone, from process start.
Init ==
    /\ SessionInit
    /\ EmptySource
    /\ NoSize
    /\ PagerInit
    /\ loader = IdleLoader
    /\ FanoutInit
    /\ SendInit
    /\ PinInit
    /\ FormatInit
    /\ arrived = "none"
    /\ GalleryInit

Next ==
    \/ /\ \E qr \in QrPayloads : OnQr(qr)
       /\ UNCHANGED <<gallery, arrived, formatting, pinVars, sourceVars, sizeVars, pagerVars, loader, fanoutVars, sendVars>>
    \/ /\ OnQrEncoded
       /\ UNCHANGED <<gallery, arrived, formatting, pinVars, sourceVars, sizeVars, pagerVars, loader, fanoutVars, sendVars>>
    \/ /\ OnAuthenticated
       /\ UNCHANGED <<gallery, arrived, formatting, pinVars, sourceVars, sizeVars, pagerVars, loader, fanoutVars, sendVars>>
    \/ /\ OnAuthFailure
       /\ UNCHANGED <<gallery, arrived, formatting, pinVars, sourceVars, sizeVars, pagerVars, loader, fanoutVars, sendVars>>
    \/ /\ OnReady
       /\ UNCHANGED <<gallery, arrived, formatting, pinVars, sourceVars, sizeVars, pagerVars, loader, fanoutVars, sendVars>>
    \/ /\ OnDisconnected
       /\ UNCHANGED <<gallery, arrived, formatting, pinVars, sourceVars, sizeVars, pagerVars, loader, fanoutVars, sendVars>>
    \/ /\ \E state \in ChangeStates : OnChangeState(state)
       /\ UNCHANGED <<gallery, arrived, formatting, pinVars, sourceVars, sizeVars, pagerVars, loader, fanoutVars, sendVars>>
    \/ /\ InitializeCompletes
       /\ UNCHANGED <<gallery, arrived, formatting, pinVars, sourceVars, sizeVars, pagerVars, loader, fanoutVars, sendVars>>
    \/ /\ InitializeFails
       /\ UNCHANGED <<gallery, arrived, formatting, pinVars, sourceVars, sizeVars, pagerVars, loader, fanoutVars, sendVars>>

Spec == Init /\ [][Next]_vars

\* The page-size computation on every limit string.
SizeSpecInit ==
    /\ SessionInit
    /\ EmptySource
    /\ SizeInit
    /\ PagerInit
    /\ loader = IdleLoader
    /\ FanoutInit
    /\ SendInit
    /\ PinInit
    /\ FormatInit
    /\ arrived = "none"
    /\ GalleryInit

SizeNext ==
    /\ ComputePageSize
    /\ UNCHANGED <<gallery, arrived, formatting, pinVars, fanoutVars, sendVars, sessionVars, sourceVars, pagerVars, loader>>

SizeSpec == SizeSpecInit /\ [][SizeNext]_vars

\* Page requests against a chat, with the session ready or not yet started.
PagerSpecInit ==
    /\ SessionInit \/ ReadySession
    /\ SourceInit
    /\ NoSize
    /\ PagerInit
    /\ loader = IdleLoader
    /\ FanoutInit
    /\ SendInit
    /\ PinInit
    /\ FormatInit
    /\ arrived = "none"
    /\ GalleryInit

PagerNext ==
    \/ /\ \E r \in ClientRequests : GetChatMessages(r.chatId, r.beforeId, r.limit)
       /\ UNCHANGED <<gallery, arrived, formatting, pinVars, fanoutVars, sendVars, sessionVars, sourceVars, sizeVars, loader>>
    \/ /\ GetChatByIdReturns
       /\ UNCHANGED <<gallery, arrived, formatting, pinVars, fanoutVars, sendVars, sessionVars, sourceVars, sizeVars, loader>>
    \/ /\ FetchLatestReturns
       /\ UNCHANGED <<gallery, arrived, formatting, pinVars, fanoutVars, sendVars, sessionVars, sourceVars, sizeVars, loader>>
    \/ /\ FirstFetchReturns
       /\ UNCHANGED <<gallery, arrived, formatting, pinVars, fanoutVars, sendVars, sessionVars, sourceVars, sizeVars, loader>>
    \/ /\ SecondFetchReturns
       /\ UNCHANGED <<gallery, arrived, formatting, pinVars, fanoutVars, sendVars, sessionVars, sourceVars, sizeVars, loader>>
    \/ /\ FetchThrows
       /\ UNCHANGED <<gallery, arrived, formatting, pinVars, fanoutVars, sendVars, sessionVars, sourceVars, sizeVars, loader>>
    \/ /\ req.pc # "idle"   \* an arrival before the first request is another Init
       /\ NewMessage
       /\ UNCHANGED <<gallery, arrived, formatting, pinVars, fanoutVars, sendVars, sessionVars, sizeVars, pagerVars, loader>>

PagerSpec == PagerSpecInit /\ [][PagerNext]_vars


\* Incremental loading of a chat in which no message arrives.
LoaderSpecInit ==
    /\ ReadySession
    /\ SourceInit
    /\ NoSize
    /\ PagerInit
    /\ loader = IdleLoader
    /\ FanoutInit
    /\ SendInit
    /\ PinInit
    /\ FormatInit
    /\ arrived = "none"
    /\ GalleryInit

LoaderNext ==
    \/ /\ \E limit \in LoaderLimits : LoaderStart(limit)
       /\ UNCHANGED <<gallery, arrived, formatting, pinVars, fanoutVars, sendVars, sessionVars, sourceVars, sizeVars>>
    \/ /\ LoaderNextPage
       /\ UNCHANGED <<gallery, arrived, formatting, pinVars, fanoutVars, sendVars, sessionVars, sourceVars, sizeVars>>
    \/ /\ LoaderFinish
       /\ UNCHANGED <<gallery, arrived, formatting, pinVars, fanoutVars, sendVars, sessionVars, sourceVars, sizeVars>>
    \/ /\ GetChatByIdReturns
       /\ UNCHANGED <<gallery, arrived, formatting, pinVars, fanoutVars, sendVars, sessionVars, sourceVars, sizeVars, loader>>
    \/ /\ FetchLatestReturns
       /\ UNCHANGED <<gallery, arrived, formatting, pinVars, fanoutVars, sendVars, sessionVars, sourceVars, sizeVars, loader>>
    \/ /\ FirstFetchReturns
       /\ UNCHANGED <<gallery, arrived, formatting, pinVars, fanoutVars, sendVars, sessionVars, sourceVars, sizeVars, loader>>
    \/ /\ SecondFetchReturns
       /\ UNCHANGED <<gallery, arrived, formatting, pinVars, fanoutVars, sendVars, sessionVars, sourceVars, sizeVars, loader>>

LoaderSpec == LoaderSpecInit /\ [][LoaderNext]_vars

\* The session with its observers and the inbound messages.
FanoutSpecInit ==
    /\ SessionInit
    /\ EmptySource
    /\ NoSize
    /\ PagerInit
    /\ loader = IdleLoader
    /\ FanoutInit
    /\ SendInit
    /\ PinInit
    /\ FormatInit
    /\ arrived = "none"
    /\ GalleryInit

FanoutNext ==
    \/ /\ \E qr \in QrPayloads : OnQr(qr)
       /\ UNCHANGED <<gallery, arrived, formatting, pinVars, sourceVars, sizeVars, pagerVars, loader, fanoutVars, sendVars>>
    \/ /\ OnQrEncoded /\ PublishQrAndStatus
       /\ UNCHANGED <<gallery, arrived, formatting, pinVars, sourceVars, sizeVars, pagerVars, loader, inbound, published, sendVars>>
    \/ /\ OnAuthenticated /\ PublishQrAndStatus
       /\ UNCHANGED <<gallery, arrived, formatting, pinVars, sourceVars, sizeVars, pagerVars, loader, inbound, published, sendVars>>
    \/ /\ OnAuthFailure /\ PublishStatus
       /\ UNCHANGED <<gallery, arrived, formatting, pinVars, sourceVars, sizeVars, pagerVars, loader, inbound, published, sendVars>>
    \/ /\ OnReady /\ PublishQrAndStatus
       /\ UNCHANGED <<gallery, arrived, formatting, pinVars, sourceVars, sizeVars, pagerVars, loader, inbound, published, sendVars>>
    \/ /\ OnDisconnected /\ PublishQrAndStatus
       /\ UNCHANGED <<gallery, arrived, formatting, pinVars, sourceVars, sizeVars, pagerVars, loader, inbound, published, sendVars>>
    \/ /\ \E state \in ChangeStates : OnChangeState(state) /\ PublishStatus
       /\ UNCHANGED <<gallery, arrived, formatting, pinVars, sourceVars, sizeVars, pagerVars, loader, inbound, published, sendVars>>
    \/ /\ InitializeCompletes
       /\ UNCHANGED <<gallery, arrived, formatting, pinVars, sourceVars, sizeVars, pagerVars, loader, fanoutVars, sendVars>>
    \/ /\ InitializeFails /\ PublishStatus
       /\ UNCHANGED <<gallery, arrived, formatting, pinVars, sourceVars, sizeVars, pagerVars, loader, inbound, published, sendVars>>
    \/ /\ \E o \in Observers : ObserverConnects(o)
       /\ UNCHANGED <<gallery, arrived, formatting, pinVars, sessionVars, sourceVars, sizeVars, pagerVars, loader, sendVars>>
    \/ /\ \E o \in Observers : ObserverDisconnects(o)
       /\ UNCHANGED <<gallery, arrived, formatting, pinVars, sessionVars, sourceVars, sizeVars, pagerVars, loader, sendVars>>
    \/ /\ OnLoadingScreen
       /\ UNCHANGED <<gallery, arrived, formatting, pinVars, sessionVars, sourceVars, sizeVars, pagerVars, loader, sendVars>>
    \/ /\ OnMessage("chat")
       /\ UNCHANGED <<gallery, arrived, formatting, pinVars, sessionVars, sourceVars, sizeVars, pagerVars, loader, sendVars>>

FanoutSpec == FanoutSpecInit /\ [][FanoutNext]_vars

\* Pin and unpin requests against one chat, the handlers interleaving at
\* their awaits.
PinSourceInit ==
    /\ history \in {[i \in 1..n |-> Message(i, 1)] : n \in {2, PinFetchLimit + 1}}
    /\ newestFirstSource \in BOOLEAN
    /\ arrivals = 0

PinSpecInit ==
    /\ SessionInit \/ ReadySession
    /\ PinSourceInit
    /\ NoSize
    /\ PagerInit
    /\ loader = IdleLoader
    /\ FanoutInit
    /\ SendInit
    /\ PinInit
    /\ FormatInit
    /\ arrived = "none"
    /\ GalleryInit

PinNext ==
    \/ /\ \E r \in 1..MaxPinRequests, body \in PinBodies : PinMessage(r, body)
       /\ UNCHANGED <<gallery, arrived, formatting, sessionVars, sourceVars, sizeVars, pagerVars, loader, fanoutVars, sendVars>>
    \/ /\ \E r \in 1..MaxPinRequests : PinGetChatByIdReturns(r)
       /\ UNCHANGED <<gallery, arrived, formatting, sessionVars, sourceVars, sizeVars, pagerVars, loader, fanoutVars, sendVars>>
    \/ /\ \E r \in 1..MaxPinRequests : PinFetchReturns(r)
       /\ UNCHANGED <<gallery, arrived, formatting, sessionVars, sourceVars, sizeVars, pagerVars, loader, fanoutVars, sendVars>>
    \/ /\ \E r \in 1..MaxPinRequests : PinThrows(r)
       /\ UNCHANGED <<gallery, arrived, formatting, sessionVars, sourceVars, sizeVars, pagerVars, loader, fanoutVars, sendVars>>

PinSpec == PinSpecInit /\ [][PinNext]_vars

\* Inbound messages of every kind, their downloads settling in any order,
\* with an observer connecting and disconnecting.
InboundNext ==
    \/ /\ \E kind \in InboundKinds : OnMessage(kind)
       /\ UNCHANGED <<gallery, arrived, formatting, pinVars, sessionVars, sourceVars, sizeVars, pagerVars, loader, sendVars>>
    \/ /\ \E i \in 1..Len(inbound), outcome \in DownloadOutcomes : DownloadSettles(i, outcome)
       /\ UNCHANGED <<gallery, arrived, formatting, pinVars, sessionVars, sourceVars, sizeVars, pagerVars, loader, sendVars>>
    \/ /\ \E o \in Observers : ObserverConnects(o)
       /\ UNCHANGED <<gallery, arrived, formatting, pinVars, sessionVars, sourceVars, sizeVars, pagerVars, loader, sendVars>>
    \/ /\ \E o \in Observers : ObserverDisconnects(o)
       /\ UNCHANGED <<gallery, arrived, formatting, pinVars, sessionVars, sourceVars, sizeVars, pagerVars, loader, sendVars>>

InboundSpec == FanoutSpecInit /\ [][InboundNext]_vars

\* The formatting loop on every selected slice.
FormatNext ==
    \/ /\ \E messages \in Slices : FormatMessages(messages)
       /\ UNCHANGED <<gallery, arrived, pinVars, sessionVars, sourceVars, sizeVars, pagerVars, loader, fanoutVars, sendVars>>
    \/ /\ \E outcome \in DownloadOutcomes : FormatDownloadSettles(outcome)
       /\ UNCHANGED <<gallery, arrived, pinVars, sessionVars, sourceVars, sizeVars, pagerVars, loader, fanoutVars, sendVars>>

FormatSpec == Init /\ [][FormatNext]_vars

\* The session with the order in which the external client emitted its
\* events: a handler starts when its event is emitted, the qr handler
\* finishes later.
Emitted(name) == arrived' = name

ArrivalNext ==
    \/ /\ \E qr \in QrPayloads : OnQr(qr)
       /\ Emitted("qr")
       /\ UNCHANGED <<gallery, formatting, pinVars, sourceVars, sizeVars, pagerVars, loader, fanoutVars, sendVars>>
    \/ /\ OnQrEncoded
       /\ UNCHANGED arrived
       /\ UNCHANGED <<gallery, formatting, pinVars, sourceVars, sizeVars, pagerVars, loader, fanoutVars, sendVars>>
    \/ /\ OnAuthenticated
       /\ Emitted("authenticated")
       /\ UNCHANGED <<gallery, formatting, pinVars, sourceVars, sizeVars, pagerVars, loader, fanoutVars, sendVars>>
    \/ /\ OnAuthFailure
       /\ Emitted("auth_failure")
       /\ UNCHANGED <<gallery, formatting, pinVars, sourceVars, sizeVars, pagerVars, loader, fanoutVars, sendVars>>
    \/ /\ OnReady
       /\ Emitted("ready")
       /\ UNCHANGED <<gallery, formatting, pinVars, sourceVars, sizeVars, pagerVars, loader, fanoutVars, sendVars>>
    \/ /\ OnDisconnected
       /\ Emitted("disconnected")
       /\ UNCHANGED <<gallery, formatting, pinVars, sourceVars, sizeVars, pagerVars, loader, fanoutVars, sendVars>>
    \/ /\ \E state \in ChangeStates : OnChangeState(state)
       /\ Emitted("change_state")
       /\ UNCHANGED <<gallery, formatting, pinVars, sourceVars, sizeVars, pagerVars, loader, fanoutVars, sendVars>>

ArrivalSpec == Init /\ [][ArrivalNext]_vars

\* Media gallery requests, with the session ready or not yet started.
GallerySpecInit ==
    /\ SessionInit \/ ReadySession
    /\ EmptySource
    /\ NoSize
    /\ PagerInit
    /\ loader = IdleLoader
    /\ FanoutInit
    /\ SendInit
    /\ PinInit
    /\ FormatInit
    /\ arrived = "none"
    /\ GalleryInit

GalleryNext ==
    \/ /\ GetChatMedia
       /\ UNCHANGED <<arrived, formatting, pinVars, sessionVars, sourceVars, sizeVars, pagerVars, loader, fanoutVars, sendVars>>
    \/ /\ \E found \in BOOLEAN : GalleryChatReturns(found)
       /\ UNCHANGED <<arrived, formatting, pinVars, sessionVars, sourceVars, sizeVars, pagerVars, loader, fanoutVars, sendVars>>
    \/ /\ \E messages \in GalleryBatches : GalleryFetchReturns(messages)
       /\ UNCHANGED <<arrived, formatting, pinVars, sessionVars, sourceVars, sizeVars, pagerVars, loader, fanoutVars, sendVars>>
    \/ /\ \E outcome \in DownloadOutcomes : GalleryDownloadSettles(outcome)
       /\ UNCHANGED <<arrived, formatting, pinVars, sessionVars, sourceVars, sizeVars, pagerVars, loader, fanoutVars, sendVars>>
    \/ /\ GalleryThrows
       /\ UNCHANGED <<arrived, formatting, pinVars, sessionVars, sourceVars, sizeVars, pagerVars, loader, fanoutVars, sendVars>>

GallerySpec == GallerySpecInit /\ [][GalleryNext]_vars

\* Request bodies of POST /api/send-message.
Base64(n) == <<Run("A", n)>>
DataUrl(data) == <<Run("data:", 1), Run("!", 10), Run(",", 1)>> \o data
Bare == <<"15550001">>

AudioInputs ==
    {Base64(MinAudioLength - 1), Base64(MinAudioLength),
     <<Run("A", MinAudioLength - 2), Run("=", 2)>>,
     <<Run("A", MinAudioLength), Run("=", 3)>>,
     <<Run("A", MinAudioLength), Run("!", 1)>>,
     Base64(MaxSizeBytes), Base64(MaxSizeBytes + 1),
     DataUrl(Base64(MinAudioLength)), DataUrl(Base64(MinAudioLength - 1)),
     DataUrl(<< >>), <<Run("data:", 1), Run("!", 10)>>}

MimeInputs ==
    {<<"audio/", "webm", ";codecs=opus">>, <<"audio/", "mp4">>, <<"audio/", "aac">>,
     <<"audio/", "mpeg">>}

AttachmentInputs ==
    {Base64(4), <<Run("A", 4), Run("!", 1)>>, DataUrl(Base64(4)), DataUrl(<< >>)}

TextBodies ==
    {[NoBody EXCEPT !.number = number, !.message = message] :
        number \in {<< >>, Bare, Bare \o <<"@c.us">>}, message \in {<< >>, <<"hi">>}}

VoiceBodies ==
    {[NoBody EXCEPT !.number = Bare, !.audioData = audioData, !.isVoiceMessage = TRUE] :
        audioData \in AudioInputs}
    \cup
    {[NoBody EXCEPT !.number = Bare, !.audioData = Base64(MinAudioLength),
                    !.isVoiceMessage = TRUE, !.mimeType = mimeType] :
        mimeType \in MimeInputs}
    \cup
    {[NoBody EXCEPT !.number = Bare, !.audioData = Base64(MinAudioLength)],
     [NoBody EXCEPT !.number = Bare, !.isVoiceMessage = TRUE],
     [NoBody EXCEPT !.number = Bare, !.message = <<"hi">>,
                    !.audioData = Base64(MinAudioLength), !.isVoiceMessage = TRUE]}

AttachmentBodies ==
    {[NoBody EXCEPT !.number = Bare, !.attachmentData = attachmentData,
                    !.attachmentType = <<"image/png">>] :
        attachmentData \in AttachmentInputs}
    \cup
    {[NoBody EXCEPT !.number = Bare, !.attachmentData = Base64(4)],
     [NoBody EXCEPT !.number = Bare, !.attachmentData = Base64(4),
                    !.attachmentType = <<"image/png">>, !.caption = <<"hi">>]}

SendBodies == TextBodies \cup VoiceBodies \cup AttachmentBodies

\* One send request, with the session changing before and while it is handled;
\* the session is followed until the request is answered.
SendSpecInit ==
    /\ SessionInit
    /\ EmptySource
    /\ NoSize
    /\ PagerInit
    /\ loader = IdleLoader
    /\ FanoutInit
    /\ SendInit
    /\ PinInit
    /\ FormatInit
    /\ arrived = "none"
    /\ GalleryInit

SendNext ==
    \/ /\ send.pc # "done"
       /\ OnAuthenticated
       /\ UNCHANGED <<gallery, arrived, formatting, pinVars, sourceVars, sizeVars, pagerVars, loader, fanoutVars, sendVars>>
    \/ /\ send.pc # "done"
       /\ OnReady
       /\ UNCHANGED <<gallery, arrived, formatting, pinVars, sourceVars, sizeVars, pagerVars, loader, fanoutVars, sendVars>>
    \/ /\ send.pc # "done"
       /\ OnDisconnected
       /\ UNCHANGED <<gallery, arrived, formatting, pinVars, sourceVars, sizeVars, pagerVars, loader, fanoutVars, sendVars>>
    \/ /\ send.pc # "done"
       /\ \E state \in ChangeStates \cup {Unset} : OnChangeState(state)
       /\ UNCHANGED <<gallery, arrived, formatting, pinVars, sourceVars, sizeVars, pagerVars, loader, fanoutVars, sendVars>>
    \/ /\ \E body \in SendBodies : SendMessage(body)
       /\ UNCHANGED <<isAuthenticated, isReady, qrCodeData, qrEncoding, lastStatus,
                      lastEvent, initOutcome>>
       /\ UNCHANGED <<gallery, arrived, formatting, pinVars, sourceVars, sizeVars, pagerVars, loader, fanoutVars>>
    \/ /\ TransportAccepts
       /\ UNCHANGED <<gallery, arrived, formatting, pinVars, sessionVars, sourceVars, sizeVars, pagerVars, loader, fanoutVars>>
    \/ /\ TransportRejects
       /\ UNCHANGED <<gallery, arrived, formatting, pinVars, sessionVars, sourceVars, sizeVars, pagerVars, loader, fanoutVars>>
    \/ /\ TimeoutFires
       /\ UNCHANGED <<gallery, arrived, formatting, pinVars, sessionVars, sourceVars, sizeVars, pagerVars, loader, fanoutVars>>
    \/ /\ \E i \in 1..Len(transport) : AbandonedCallAccepted(i)
       /\ UNCHANGED <<gallery, arrived, formatting, pinVars, sessionVars, sourceVars, sizeVars, pagerVars, loader, fanoutVars>>

SendSpec == SendSpecInit /\ [][SendNext]_vars

\* The 30 second timer, once set, fires unless it is cleared.
TimerStep ==
    /\ TimeoutFires
    /\ UNCHANGED <<gallery, arrived, formatting, pinVars, sessionVars, sourceVars, sizeVars, pagerVars, loader, fanoutVars>>

SendFairSpec == SendSpec /\ WF_vars(TimerStep)

----
\* Properties of the history pager.

Answered == req.pc = "done" /\ resp.status = 200
ValidPageSize == ~req.pageSize.nan /\ req.pageSize.v \in 1..MaxPageSize
CursorInHistory == req.beforeId # << >> /\ req.beforeId[1] \in 1..Len(history)
CursorMessage == history[req.beforeId[1]]
Ids(messages) == {messages[i].id : i \in 1..Len(messages)}
Ascending(messages) ==
    \A i \in 1..(Len(messages) - 1) : messages[i].timestamp <= messages[i + 1].timestamp

\* C1 as stated: a page requested with a cursor and a page size p in 1..100
\* holds at most p messages, each with a timestamp strictly smaller than the
\* cursor message's timestamp.
C1_StrictlyOlder ==
    (Answered /\ ValidPageSize /\ CursorInHistory) =>
        /\ Len(resp.messages) <= req.pageSize.v
        /\ \A i \in 1..Len(resp.messages) :
              resp.messages[i].timestamp < CursorMessage.timestamp

\* C1 amended: a page requested with a cursor and a page size p in 1..100
\* holds at most p messages, none of them the cursor message and none with a
\* timestamp greater than the cursor message's timestamp, for either
\* orientation of the source and also when the page comes from the retry.
C1_NotNewer ==
    (Answered /\ ValidPageSize /\ CursorInHistory) =>
        /\ Len(resp.messages) <= req.pageSize.v
        /\ \A i \in 1..Len(resp.messages) :
              /\ resp.messages[i].timestamp <= CursorMessage.timestamp
              /\ resp.messages[i].id # CursorMessage.id

C1_Witness ==
    /\ Answered /\ ValidPageSize /\ CursorInHistory
    /\ Len(req.fetches) = 2
    /\ Len(history) > FetchSize
    /\ resp.messages # << >>

\* C2: every page is in ascending timestamp order, for either orientation of
\* the source, with or without a cursor.
C2_Ascending == (Answered /\ ValidPageSize) => Ascending(resp.messages)

\* C4: when the cursor id does not occur in the fetched batch, the request is
\* answered successfully with an empty message list.
C4_NotFoundEmpty ==
    (req.pc = "done" /\ req.fetches # << >> /\ req.beforeId # << >> /\ req.beforeIndex = -1) =>
        resp.status = 200 /\ resp.messages = << >>

C4_Witness ==
    /\ req.pc = "done" /\ req.fetches # << >> /\ req.beforeIndex = -1
    /\ CursorInHistory
    /\ Len(history) > 1

C6_ExactlyOnePage ==
    (Answered /\ ValidPageSize /\ req.pageSize.v = Len(history) /\ req.n0 = Len(history)) =>
        /\ req.beforeId = << >> =>
              Len(resp.messages) = Len(history) /\ Ids(resp.messages) = Ids(history)
        /\ req.beforeId = <<history[1].id>> => resp.messages = << >>

\* C8: a request without cursor issues exactly one fetch, with limit equal to
\* the page size, and returns exactly the fetched messages oldest-first.
C8_LatestPage ==
    (Answered /\ ValidPageSize /\ req.beforeId = << >>) =>
        /\ req.fetches = <<req.pageSize>>
        /\ Len(resp.messages) = Len(req.messages)
        /\ Ids(resp.messages) = Ids(req.messages)
        /\ Ascending(resp.messages)

\* C3: incremental loading without arrivals delivers every message of the
\* history exactly once, and ends with an empty page only after the oldest
\* message has been delivered.
C3_GapFree ==
    /\ Cardinality({loader.delivered[i] : i \in 1..Len(loader.delivered)})
          = Len(loader.delivered)
    /\ loader.finished =>
          {loader.delivered[i] : i \in 1..Len(loader.delivered)} = Ids(history)

----
\* Properties of the page size.

\* C7: the effective page size is an integer in 1..100 for every value of the
\* limit parameter, and 50 when the parameter is absent.
C7_PageSizeInRange ==
    effectivePageSize # << >> =>
        /\ ~effectivePageSize[1].nan
        /\ effectivePageSize[1].v \in 1..MaxPageSize
        /\ limitParam = << >> => effectivePageSize[1].v = 50

----
\* Properties of the session.

\* C9: a CONFLICT or UNLAUNCHED state-changed signal leaves isAuthenticated
\* and isReady false, and the status published for it carries both false.
C9_ConflictClearsFlags ==
    (lastEvent.name = "change_state" /\ lastEvent.arg \in {"CONFLICT", "UNLAUNCHED"}) =>
        /\ ~isAuthenticated /\ ~isReady
        /\ lastStatus # << >>
        /\ ~lastStatus[1].isAuthenticated /\ ~lastStatus[1].isReady

C9_Witness ==
    /\ lastEvent = [name |-> "change_state", arg |-> "CONFLICT"]
    /\ lastStatus = <<Status(FALSE, FALSE, "CONFLICT")>>
    /\ qrEncoding # << >>

\* C10: isReady holds exactly when clientState is READY, and isAuthenticated
\* exactly when clientState is AUTHENTICATED or READY.
C10_FlagsDerived ==
    /\ isReady <=> clientState = "READY"
    /\ isAuthenticated <=> clientState \in {"AUTHENTICATED", "READY"}

\* GET /api/status: the session as a status query reports it.
GetStatus ==
    [isAuthenticated |-> isAuthenticated, isReady |-> isReady,
     qrCode |-> qrCodeData, state |-> clientState]

\* C11: the most recently published status event carries isAuthenticated,
\* isReady and connectionState equal to the session's current values.
C11_SnapshotPublished ==
    lastStatus # << >> =>
        lastStatus[1] = Status(isAuthenticated, isReady, clientState)

\* C12: once initialization has failed the session has isReady and
\* isAuthenticated false and connectionState INITIALIZING, and a status query
\* reports that non-ready state.
C12_InitFailureLeavesInitializing ==
    lastEvent.name = "init_failed" =>
        /\ ~isReady /\ ~isAuthenticated
        /\ clientState = "INITIALIZING"
        /\ ~GetStatus.isReady /\ ~GetStatus.isAuthenticated
        /\ GetStatus.state = "INITIALIZING"

----
\* Properties of the fan-out.

\* C13: the step that registers an observer sends it one status event equal
\* to the current session snapshot and, exactly when a QR payload is pending,
\* one qr event with that payload; and no observer ever holds a message or
\* loading event that was published before its registration.
C13_ReplayOnRegistration ==
    [][/\ \A o \in Observers :
            (~observers[o].connected /\ observers'[o].connected) =>
               /\ observers'[o].status = <<Status(isAuthenticated, isReady, clientState)>>
               /\ observers'[o].qr = (IF qrCodeData # << >> THEN <<qrCodeData>> ELSE << >>)
               /\ observers'[o].replayed = (IF qrCodeData # << >> THEN 2 ELSE 1)
               /\ observers'[o].inbox = << >>
       /\ \A o \in Observers :
            \A k \in 1..Len(observers'[o].inbox) :
               observers'[o].inbox[k] > observers'[o].joinedAt]_vars

C13_Witness ==
    /\ observers["o1"].connected
    /\ observers["o1"].joinedAt = 1 /\ observers["o1"].inbox = <<2>>
    /\ published[1].topic = "message" /\ published[2].topic = "loading"
    /\ observers["o1"].replayed = 2
    /\ qrCodeData = <<"qrB">>
    /\ observers["o1"].qr = <<qrCodeData>>
    /\ observers["o1"].status = <<Status(FALSE, FALSE, "QR_RECEIVED")>>

----
\* Properties of sending.

Handled == send.pc = "done" /\ sendResp # << >>

\* The request took the voice path / the attachment path.
VoiceRequest == send.body.isVoiceMessage /\ send.body.audioData # << >>
AttachmentRequest ==
    ~VoiceRequest /\ send.body.attachmentData # << >> /\ send.body.attachmentType # << >>
NoContent ==
    send.body.message = << >> /\ send.body.audioData = << >> /\ send.body.attachmentData = << >>

\* C14: a send request that arrives while connectionState is not READY or
\* isAuthenticated is false, or that carries no text, audio or attachment, is
\* answered 400 or 503 and makes no transport call.
C14_PreconditionRejects ==
    (send.pc # "idle" /\ (\/ send.entry.clientState # "READY"
                          \/ ~send.entry.isAuthenticated
                          \/ NoContent)) =>
        /\ Handled
        /\ sendResp[1].status \in {400, 503}
        /\ transport = << >>

\* The payload of a voice request is empty, outside the base64 alphabet,
\* shorter than 100 characters or oversized.
InvalidAudio ==
    LET clean == StripDataUrl(send.body.audioData) IN
    \/ clean = << >>
    \/ ~IsBase64(clean)
    \/ StrLen(clean) < MinAudioLength
    \/ StrLen(send.body.audioData) > MaxSizeBytes

\* C15: a voice-note send with an invalid payload makes no transport call.
C15_InvalidAudioNoTransport ==
    (send.pc # "idle" /\ VoiceRequest /\ InvalidAudio) => transport = << >>

C15_Witness ==
    /\ Handled
    /\ send.entry = Status(TRUE, TRUE, "READY")
    /\ send.body.audioData = Base64(MinAudioLength - 1)
    /\ VoiceRequest
    /\ transport = << >>

\* C16: a voice-note or attachment send whose payload fails validation is
\* answered with status 400 or 413, never 500.
C16_ValidationStatus ==
    (/\ Handled
     /\ send.entry.isAuthenticated /\ send.entry.isReady
     /\ send.body.number # << >>
     /\ \/ VoiceRequest /\ send.entry.clientState = "READY" /\ InvalidAudio
        \/ AttachmentRequest /\ AttachmentDataError(StripDataUrl(send.body.attachmentData)) # "none") =>
        sendResp[1].status \in {400, 413}

\* The voice chain of the request: its attempts and their outcomes.
Failed(outcome) == outcome \in {"rejected", "timeout"}
SucceededAt(k) ==
    /\ Handled
    /\ send.attempts # << >>
    /\ send.attempts[Len(send.attempts)] = [tier |-> k, outcome |-> "ok"]
AllTiersFailed ==
    /\ Handled
    /\ Len(send.attempts) = LastTier
    /\ \A i \in 1..LastTier : Failed(send.attempts[i].outcome)

\* C17: the transport calls of the voice chain are those of methods 1, 2, ...
\* in this order; a method is called only after every earlier one has failed,
\* and none is called after a method that succeeded.
C17_TiersInOrder ==
    VoiceRequest =>
        /\ Len(transport) = Len(send.attempts)
        /\ \A i \in 1..Len(transport) :
              /\ transport[i].tier = i
              /\ transport[i].content = Tiers[i]
              /\ send.attempts[i].tier = i
              /\ \A j \in 1..(i - 1) : Failed(send.attempts[j].outcome)
        /\ \A j \in 1..Len(send.attempts) :
              send.attempts[j].outcome = "ok" => Len(transport) = j

C17_Witness ==
    /\ SucceededAt(3)
    /\ send.attempts[1].outcome = "rejected" /\ send.attempts[2].outcome = "rejected"
    /\ Len(transport) = 3
    /\ transport[3].content = "document" /\ transport[3].state = "accepted"

\* C18: a voice-note send that succeeds at one of the methods 2 to 5 answers
\* with a method indicator other than that of method 1.
C18_MethodNamesTier ==
    \A k \in 2..(LastTier - 1) :
        SucceededAt(k) => sendResp[1].method # VoiceSuccess.method

\* C19: when methods 1 to 5 failed and the failure notice was delivered the
\* response is a success that carries the fallback method and a warning; the
\* response of a success of methods 1 to 5 carries neither, and the response
\* of a total failure is not a success.
C19_PartialSuccessDistinct ==
    /\ SucceededAt(LastTier) =>
          /\ sendResp[1].status = 200 /\ sendResp[1].success = "true"
          /\ sendResp[1].method = "fallback notification" /\ sendResp[1].warning
    /\ \A k \in 1..(LastTier - 1) :
          SucceededAt(k) =>
             /\ sendResp[1].success = "true"
             /\ sendResp[1].method # "fallback notification" /\ ~sendResp[1].warning
    /\ AllTiersFailed => sendResp[1].success # "true" /\ sendResp[1].status # 200

C19_Witness ==
    /\ SucceededAt(LastTier)
    /\ \A i \in 1..(LastTier - 1) : send.attempts[i].outcome = "rejected"
    /\ transport[LastTier].content = "notice" /\ transport[LastTier].state = "accepted"
    /\ sendResp[1].cause = Rejection(LastTier - 1)

\* C20: when every method of the voice chain failed, the failure notice
\* included, the response has status 500 and success false and carries the
\* error of the last failed attempt.
C20_TotalFailure ==
    AllTiersFailed =>
        /\ sendResp[1].status = 500
        /\ sendResp[1].success = "false"
        /\ sendResp[1].cause =
              (IF send.attempts[LastTier].outcome = "timeout"
               THEN TimeoutError ELSE Rejection(LastTier))

C20_Witness ==
    /\ AllTiersFailed
    /\ \A i \in 1..LastTier : send.attempts[i].outcome = "rejected"
    /\ Len(transport) = LastTier
    /\ sendResp[1].cause = Rejection(LastTier)

\* C21: an attachment send makes at most one transport call; when the call
\* fails the request is answered with an error and no further call is made,
\* and when the payload fails validation no call is made at all.
InvalidAttachment ==
    LET clean == StripDataUrl(send.body.attachmentData) IN
    clean = << >> \/ ~IsBase64(clean)

AttachmentSend ==
    /\ send.pc # "idle" /\ AttachmentRequest
    /\ send.entry.isAuthenticated /\ send.entry.isReady
    /\ send.body.number # << >>

C21_AttachmentOneCall ==
    AttachmentSend =>
        /\ Len(transport) <= 1
        /\ InvalidAttachment => transport = << >>
        /\ (transport # << >> /\ transport[1].state = "rejected") =>
              /\ Handled
              /\ sendResp[1].status = 500 /\ sendResp[1].success # "true"

C21_Witness ==
    /\ AttachmentSend /\ Handled
    /\ Len(transport) = 1 /\ transport[1].state = "rejected"
    /\ sendResp[1].error = "Failed to send attachment"

\* C22: a text send with a destination and a body, while the session is
\* READY and authenticated, makes exactly one transport call, to the
\* normalized destination with that body; it answers success true when the
\* transport accepts the call and an error, without a second call, when not.
TextSend ==
    /\ send.pc # "idle"
    /\ send.entry.clientState = "READY" /\ send.entry.isAuthenticated
    /\ send.body.number # << >> /\ send.body.message # << >>
    /\ ~VoiceRequest /\ ~AttachmentRequest

C22_TextOneCall ==
    TextSend =>
        /\ Len(transport) = 1
        /\ transport[1].to =
              (IF \E i \in 1..Len(send.body.number) : send.body.number[i] = "@c.us"
               THEN send.body.number ELSE send.body.number \o <<"@c.us">>)
        /\ transport[1].text = send.body.message
        /\ transport[1].state = "accepted" =>
              Handled /\ sendResp[1].status = 200 /\ sendResp[1].success = "true"
        /\ transport[1].state = "rejected" =>
              Handled /\ sendResp[1].status = 500 /\ sendResp[1].success # "true"
        /\ Handled => transport[1].state # "pending"

C22_Witness ==
    /\ TextSend /\ Handled
    /\ send.body.number = Bare \o <<"@c.us">>
    /\ transport = <<[tier |-> 0, to |-> Bare \o <<"@c.us">>, content |-> "text",
                      hasBody |-> TRUE, text |-> <<"hi">>, state |-> "accepted",
                      live |-> TRUE]>>
    /\ sendResp = <<TextSuccess>>

\* C23: a MIME string that contains a whitelist name (webm, mp4, wav, ogg,
\* mpeg) is normalized to that type, and one that contains none to webm.
MimeNames == {"webm", "mp4", "wav", "ogg", "mpeg"}
MimeTypeOf(name) ==
    CASE name = "webm" -> "audio/webm" [] name = "mp4" -> "audio/mp4"
      [] name = "wav" -> "audio/wav" [] name = "ogg" -> "audio/ogg"
      [] name = "mpeg" -> "audio/mpeg"
C23_MimeNormalized ==
    (send.pc = "voice" /\ send.body.mimeType # << >>) =>
        LET named == {name \in MimeNames : Includes(send.body.mimeType, name)} IN
        IF named = {} THEN send.cleanMimeType = "audio/webm"
        ELSE \E name \in named : send.cleanMimeType = MimeTypeOf(name)

\* C29: when an attempt of the voice chain was abandoned on timeout and the
\* transport accepts the call of a later method, the request is answered
\* with success.
C29_OwnTimeBox ==
    (/\ Handled /\ VoiceRequest
     /\ \E i \in 1..Len(send.attempts) :
           /\ send.attempts[i].outcome = "timeout"
           /\ \E j \in (i + 1)..Len(transport) : transport[j].state = "accepted") =>
        sendResp[1].success = "true"

\* C30: a step of the send-message handler leaves connectionState,
\* isAuthenticated, isReady and the pending QR payload unchanged.
C30_RestLeavesSession ==
    [][send' # send => UNCHANGED <<clientState, isAuthenticated, isReady, qrCodeData>>]_vars

\* C28: with a cursor the pager fetches a second time, with limit 1000,
\* exactly when the cursor was found in the first batch of 500 and fewer than
\* pageSize strictly older messages lie beyond it in that batch, whatever the
\* orientation of the batch; it never fetches more than twice.
FirstWindow == (Len(history) - Min(FetchSize, Len(history)) + 1)..Len(history)
OlderInFirstBatch ==
    {i \in FirstWindow : history[i].timestamp < CursorMessage.timestamp}
C28_SecondFetchExactly ==
    (Answered /\ req.beforeId # << >> /\ ValidPageSize /\ arrivals = 0) =>
        /\ Len(req.fetches) <= 2
        /\ (req.fetches = <<Num(FetchSize), Num(MoreFetchSize)>>) <=>
              /\ CursorInHistory
              /\ req.beforeId[1] \in FirstWindow
              /\ Cardinality(OlderInFirstBatch) < req.pageSize.v

\* C25: under every interleaving of pin and unpin requests on one chat the
\* chat's pinned list never holds two entries with the same message id.
NoDuplicateIds(array) ==
    \A i, j \in 1..Len(array) : array[i].id = array[j].id => i = j
C25_PinnedIsSet == \A c \in PinChats : NoDuplicateIds(GetPinnedMessages(c))

\* A pin request for a message answered before the next request began, and
\* that next request an unpin of the same message in the same chat: the four
\* trace entries starting at k.
PinThenUnpin(k) ==
    /\ k + 3 <= Len(pinTrace)
    /\ pinTrace[k].event = "begin" /\ pinTrace[k + 1].event = "end"
    /\ pinTrace[k + 1].request = pinTrace[k].request
    /\ pinTrace[k + 2].event = "begin" /\ pinTrace[k + 3].event = "end"
    /\ pinTrace[k + 3].request = pinTrace[k + 2].request
    /\ pins[pinTrace[k].request].action = "pin"
    /\ pins[pinTrace[k + 2].request].action = "unpin"
    /\ pins[pinTrace[k + 2].request].messageId = pins[pinTrace[k].request].messageId
    /\ pins[pinTrace[k + 2].request].chatId = pins[pinTrace[k].request].chatId

\* C24 as stated: a pin of a message followed by an unpin of the same message
\* leaves the chat's pinned list equal to the list before the pin, for every
\* prior list.
C24_RoundTrip ==
    \A k \in 1..Len(pinTrace) :
        PinThenUnpin(k) => pinTrace[k + 3].pinnedMessages = pinTrace[k].pinnedMessages

\* C24 amended: the round trip holds for every prior list that does not
\* already hold the message.
C24_RoundTripWhenNotPinned ==
    \A k \in 1..Len(pinTrace) :
        (/\ PinThenUnpin(k)
         /\ ~IsPinned(pinTrace[k].pinnedMessages, pins[pinTrace[k].request].messageId))
            => pinTrace[k + 3].pinnedMessages = pinTrace[k].pinnedMessages

C24_Witness ==
    \E k \in 1..Len(pinTrace) :
        /\ PinThenUnpin(k)
        /\ pinTrace[k].pinnedMessages # << >>
        /\ ~IsPinned(pinTrace[k].pinnedMessages, pins[pinTrace[k].request].messageId)
        /\ IsPinned(pinTrace[k + 1].pinnedMessages, pins[pinTrace[k].request].messageId)
        /\ pinTrace[k + 3].pinnedMessages = pinTrace[k].pinnedMessages

\* C26: every inbound message whose handler has finished has exactly one
\* published message event, also a voice or audio message whose download
\* failed; that event then carries no media, and nothing is published for a
\* message still downloading or for no message at all.
MessageEvents(i) ==
    {k \in 1..Len(published) : published[k].topic = "message" /\ published[k].id = i}
C26_OneEventPerMessage ==
    /\ \A i \in 1..Len(inbound) :
          /\ inbound[i].pc = "published" => Cardinality(MessageEvents(i)) = 1
          /\ inbound[i].pc = "downloading" => MessageEvents(i) = {}
          /\ inbound[i].download = "throws" =>
                \A k \in MessageEvents(i) : ~published[k].media
    /\ \A k \in 1..Len(published) :
          published[k].topic = "message" /\ published[k].id \in 1..Len(inbound)

C26_Witness ==
    \E i \in 1..Len(inbound) :
        /\ inbound[i].kind \in {"ptt", "audio"}
        /\ inbound[i].download = "throws"
        /\ \E k \in MessageEvents(i) : ~published[k].media

\* C27 as stated: the page holds one entry per message of the slice, in the
\* slice's order, also when image downloads fail; the failed ones carry no
\* media and the request is answered 200.
Formatted == formatting.pc = "done"
MetadataOnly(k, j) ==
    formatting.downloads[j] # "media" => ~formatting.response[k].mediaUrl
C31_ArrivalOrder ==
    (arrived = "authenticated" /\ qrEncoding = << >>) =>
        /\ isAuthenticated
        /\ clientState = "AUTHENTICATED"
        /\ qrCodeData = << >>

\* C33: in every reachable session state isReady implies isAuthenticated.
C33_ReadyImpliesAuthenticated == isReady => isAuthenticated

\* Positions of a request's entries in the trace (0 when it has none).
TraceIndex(r, event) ==
    IF \E k \in 1..Len(pinTrace) : pinTrace[k].request = r /\ pinTrace[k].event = event
    THEN CHOOSE k \in 1..Len(pinTrace) :
             pinTrace[k].request = r /\ pinTrace[k].event = event
    ELSE 0

\* The messages chat.fetchMessages({ limit: 100 }) returns hold the id.
Fetchable(messageId) ==
    \E i \in (Len(history) - Min(PinFetchLimit, Len(history)) + 1)..Len(history) :
        history[i].id = messageId

\* An unpin of a message began and was answered while a pin of another,
\* fetchable message of the chat was suspended, both now answered 200, and
\* every pin of the unpinned message had been answered before the unpin began.
UnpinDuringPin(u, p) ==
    /\ pins[u].pc = "done" /\ pins[u].status = 200 /\ pins[u].action = "unpin"
    /\ pins[p].pc = "done" /\ pins[p].status = 200 /\ pins[p].action = "pin"
    /\ pins[p].messageId # pins[u].messageId
    /\ Fetchable(pins[p].messageId)
    /\ TraceIndex(p, "begin") < TraceIndex(u, "begin")
    /\ TraceIndex(u, "end") < TraceIndex(p, "end")
    /\ \A r \in 1..MaxPinRequests :
          (pins[r].pc # "idle" /\ pins[r].action = "pin"
              /\ pins[r].messageId = pins[u].messageId)
            => (TraceIndex(r, "end") # 0 /\ TraceIndex(r, "end") < TraceIndex(u, "begin"))

\* C32: after an unpin answered while a pin of another message was suspended,
\* and the pin answered too, the unpinned message is absent from the list the
\* pin leaves and the other message is present.
C32_UnpinNotUndone ==
    \A u, p \in 1..MaxPinRequests :
        UnpinDuringPin(u, p) =>
            LET after == pinTrace[TraceIndex(p, "end")].pinnedMessages
            IN  /\ ~IsPinned(after, pins[u].messageId)
                /\ IsPinned(after, pins[p].messageId)

\* C38: the list returned by a pin request answered with success holds the
\* message of the request.
C38_PinnedWhenSuccess ==
    \A r \in 1..MaxPinRequests :
        (pins[r].pc = "done" /\ pins[r].status = 200 /\ pins[r].action = "pin")
            => IsPinned(pins[r].pinnedMessages, pins[r].messageId)

\* C34: every transport call of the voice fallback chain is made while
\* isReady and isAuthenticated are both true.
C34_VoiceCallsWhileReady ==
    \A i \in 1..Len(transport) : transport[i].tier >= 1 => transport[i].live

\* C36: a send request is answered at most once and exactly once when its
\* handler has finished, and a voice-note request that reached the fallback
\* chain is eventually answered even when no transport call settles.
C36_AnsweredOnce ==
    /\ [](Len(sendResp) <= 1 /\ (send.pc = "done" <=> Len(sendResp) = 1))
    /\ (send.pc = "voice") ~> (send.pc = "done")

C36_Witness ==
    /\ send.pc = "done"
    /\ send.timer = "fired"
    /\ Len(sendResp) = 1
    /\ Len(transport) = LastTier
    /\ \A i \in 1..Len(transport) : transport[i].state = "pending"

\* C37: every transport call of the plain-text path carries a present,
\* non-empty message body.
C37_TextHasBody ==
    \A i \in 1..Len(transport) :
        transport[i].content = "text" => transport[i].text # << >>

\* C35: message events are published in the order in which the inbound
\* messages arrived.
C35_PublishedInArrivalOrder ==
    \A j, k \in 1..Len(published) :
        (j < k /\ published[j].topic = "message" /\ published[k].topic = "message")
            => published[j].id < published[k].id

\* C39: when a message arrived during a page request that fetched twice, the
\* page holds only messages that precede the cursor message in the chat, and
\* never the cursor message itself.
C39_RetryPageOlder ==
    (Answered /\ ValidPageSize /\ CursorInHistory
        /\ Len(req.fetches) = 2 /\ arrivals >= 1) =>
        \A i \in 1..Len(resp.messages) :
            /\ resp.messages[i].id < CursorMessage.id
            /\ resp.messages[i].timestamp <= CursorMessage.timestamp

\* The arrival came after the first fetch: the cursor's index in the first
\* batch is one less than its index in a batch of the chat as it is now.
C39_Witness ==
    /\ Answered /\ ValidPageSize /\ CursorInHistory
    /\ Len(req.fetches) = 2 /\ arrivals = 1
    /\ req.beforeIndex + 1 = FindIndex(Batch(Min(MoreFetchSize, Len(history))), req.beforeId)
    /\ resp.messages # << >>
    /\ \A i \in 1..Len(resp.messages) : resp.messages[i].id < CursorMessage.id

\* C40: the media gallery of a response never holds more than 24 items.
C40_GalleryAtMostLimit ==
    gallery.pc = "done" => Len(gallery.response) <= GalleryLimit

====
